---- MODULE Spec2Model ----
(***************************************************************************)
(* RealityNFTService (typescript/src): lazy initialization of the store    *)
(* client, ownership filter, payload decoding, the result cache, and the   *)
(* advanced search of getAllData (anchor selection, related query,         *)
(* bucketing by payload type, ordering, pagination).                       *)
(*                                                                         *)
(* Strings are TLA+ strings; JavaScript objects used as maps are modelled  *)
(* with their property order (integer-like keys first, ascending, then the *)
(* other keys in insertion order), because the code iterates them.         *)
(***************************************************************************)
EXTENDS Integers, Sequences, FiniteSets, TLC

\* ------------------------------------------------------------------------
\* Bounds of the model
\* ------------------------------------------------------------------------
\* longest entity list one store query returns
MaxResult == 2
\* largest skip passed to getAllData
MaxSkip == 2
\* largest numeric limit passed to getAllData
MaxLimit == 2
\* number of operations called on one service instance
MaxCalls == 2
\* longest list passed to applySkipAndLimit on its own
MaxItems == 3

\* ------------------------------------------------------------------------
\* constants.ts, types.ts
\* ------------------------------------------------------------------------
SYSTEM_ANNOTATION_KEYS ==
  [FILE_STEM |-> "_sys_file_stem", DATA |-> "_sys_data",
   COMPRESSION_METHOD |-> "_sys_compression_method",
   VERSION |-> "_sys_version", STATUS |-> "_sys_status",
   FILE_TYPE |-> "_sys_file_type", CATEGORY |-> "_sys_category"]

ATTRIBUTE_KEYS ==
  [TYPE |-> "type", SETTLEMENT |-> "settlement", COUNTRY_NAME |-> "country_name"]

COMPRESSION_METHODS == [GZIP |-> "gzip"]

\* variant: another status in place of "prod"
QUERY_STATUS_VALUES_dev == [BOTH |-> "both", PROD |-> "dev"]

QUERY_STATUS_VALUES == [BOTH |-> "both", PROD |-> "prod"]

FILE_TYPE == [JSON |-> "json"]

EntityType == [BUILDING |-> "building", CITY |-> "city", COUNTRY |-> "country"]

\* variant: the priority reversed
ENTITY_TYPE_PRIORITY_reversed ==
  <<EntityType.BUILDING, EntityType.CITY, EntityType.COUNTRY>>

ENTITY_TYPE_PRIORITY == <<EntityType.COUNTRY, EntityType.CITY, EntityType.BUILDING>>

SystemCategory ==
  [REALITY_NFT_METADATA |-> "REALITY_NFT_METADATA",
   REALITY_NFT_SPECIAL_VENUES |-> "REALITY_NFT_SPECIAL_VENUES"]

\* ------------------------------------------------------------------------
\* JavaScript values
\* ------------------------------------------------------------------------
\* null and undefined where the code holds a string or nothing
null == "<null>"

undefined == "<undefined>"

\* !s for a string-or-nothing value
Falsy(s) == s \in {null, undefined, ""}

Range(f) == {f[i] : i \in DOMAIN f}

UpperLetters == "ABCDEFGHIJKLMNOPQRSTUVWXYZ"

LowerLetters == "abcdefghijklmnopqrstuvwxyz"

Digits == "0123456789"

\* position of the one-character string c in s, 0 when absent
IndexOf(s, c) ==
  IF \E i \in 1..Len(s) : SubSeq(s, i, i) = c
  THEN CHOOSE i \in 1..Len(s) : SubSeq(s, i, i) = c
  ELSE 0

\* the letters with a different lower-case (upper-case) form, as tables
LowerOf ==
  [c \in {SubSeq(UpperLetters, i, i) : i \in 1..Len(UpperLetters)} |->
     SubSeq(LowerLetters, IndexOf(UpperLetters, c), IndexOf(UpperLetters, c))]

UpperOf ==
  [c \in {SubSeq(LowerLetters, i, i) : i \in 1..Len(LowerLetters)} |->
     SubSeq(UpperLetters, IndexOf(LowerLetters, c), IndexOf(LowerLetters, c))]

DigitOf ==
  [c \in {SubSeq(Digits, i, i) : i \in 1..Len(Digits)} |-> IndexOf(Digits, c) - 1]

LowerChar(c) == IF c \in DOMAIN LowerOf THEN LowerOf[c] ELSE c

UpperChar(c) == IF c \in DOMAIN UpperOf THEN UpperOf[c] ELSE c

RECURSIVE toLowerCase(_)
toLowerCase(s) ==
  IF Len(s) = 0 THEN ""
  ELSE LowerChar(SubSeq(s, 1, 1)) \o toLowerCase(SubSeq(s, 2, Len(s)))

RECURSIVE toUpperCase(_)
toUpperCase(s) ==
  IF Len(s) = 0 THEN ""
  ELSE UpperChar(SubSeq(s, 1, 1)) \o toUpperCase(SubSeq(s, 2, Len(s)))

IsDigits(s) == \A i \in 1..Len(s) : SubSeq(s, i, i) \in DOMAIN DigitOf

RECURSIVE DecimalValue(_)
DecimalValue(s) ==
  IF Len(s) = 0 THEN 0
  ELSE 10 * DecimalValue(SubSeq(s, 1, Len(s) - 1)) + DigitOf[SubSeq(s, Len(s), Len(s))]

\* A property key is an array index when it is the canonical decimal form of
\* an integer below 2^32 - 1; keys of up to nine digits cover the model.
IsArrayIndex(s) ==
  /\ Len(s) > 0
  /\ Len(s) <= 9
  /\ IsDigits(s)
  /\ (Len(s) = 1 \/ SubSeq(s, 1, 1) # "0")

RECURSIVE SortAscending(_)
SortAscending(S) ==
  IF S = {} THEN <<>>
  ELSE LET m == CHOOSE k \in S : \A o \in S : DecimalValue(k) <= DecimalValue(o)
       IN <<m>> \o SortAscending(S \ {m})

\* An object used as a map: keys in insertion order, and the values.
EmptyObject == [keys |-> <<>>, vals |-> <<>>]

Has(o, k) == k \in Range(o.keys)

\* o[k] = v: an existing key keeps its place
Put(o, k, v) ==
  [keys |-> IF Has(o, k) THEN o.keys ELSE Append(o.keys, k),
   vals |-> (k :> v) @@ o.vals]

\* A Map whose iteration order nothing reads: the value of each key
EmptyMap == <<>>

\* a variant that never finds a key
MapHas_never(m, k) == FALSE

MapHas(m, k) == k \in DOMAIN m

MapSet(m, k, v) == (k :> v) @@ m

\* Object.keys(o): array-index keys ascending, then the rest as inserted
ObjectKeys(o) ==
  LET notIdx(k) == ~IsArrayIndex(k)
  IN SortAscending({k \in Range(o.keys) : IsArrayIndex(k)})
     \o SelectSeq(o.keys, notIdx)

\* ------------------------------------------------------------------------
\* The external store: entities, their metadata and payloads
\* ------------------------------------------------------------------------
Annotation(k, v) == [key |-> k, value |-> v]

\* Decoded JSON values. An object carries what the code reads: a direct
\* `type`, an `attributes` member, and a name telling payloads apart.
JsonNull == [kind |-> "null"]

NoAttributes == [kind |-> "absent", items |-> <<>>]

\* metadata-category payload: {name, attributes: [{trait_type: "type", value: t}]}
NftJson(t, n) ==
  [kind |-> "object", type |-> undefined, name |-> n,
   attributes |-> [kind |-> "array",
                   items |-> <<[trait_type |-> "rarity", value |-> "1"],
                               [trait_type |-> "type", value |-> t]>>]]

\* special-venues payload: {name, type: t}
VenueJson(t, n) ==
  [kind |-> "object", type |-> t, name |-> n, attributes |-> NoAttributes]

\* object without any type information
PlainJson(n) ==
  [kind |-> "object", type |-> undefined, name |-> n, attributes |-> NoAttributes]

\* text that is not JSON
NotJson == [kind |-> "not json"]

\* The value of a _sys_data annotation: whether the text is valid base64,
\* whether the bytes are a gzip stream, and the text inside.
Payload(valid, gz, json) == [base64 |-> valid, gzip |-> gz, json |-> json]

EmptyString == Payload(TRUE, FALSE, [kind |-> "empty"])

\* A store entity: its key, whether fetching its metadata fails, and the
\* metadata.  Query results are lists of entity keys.
StoreEntity(ek, owner, fails, annotations) ==
  [entityKey |-> ek, owner |-> owner, metaFails |-> fails,
   stringAnnotations |-> annotations]

\* the annotations of an entity; prefix is "attr_" in the metadata category
\* and "" in the special-venues category; undefined members are left out
Annotations(prefix, stem, t, settlement, country, payload) ==
  (IF stem = undefined THEN <<>> ELSE <<Annotation("_sys_file_stem", stem)>>)
  \o (IF t = undefined THEN <<>> ELSE <<Annotation(prefix \o "type", t)>>)
  \o (IF settlement = undefined THEN <<>>
      ELSE <<Annotation(prefix \o "settlement", settlement)>>)
  \o (IF country = undefined THEN <<>>
      ELSE <<Annotation(prefix \o "country_name", country)>>)
  \o <<Annotation("_sys_data", payload)>>

\* ------------------------------------------------------------------------
\* State
\* ------------------------------------------------------------------------
VARIABLES
  client,              \* null or the handle createClient resolved to
  cache,               \* Map<string, unknown>: the cached data of each cache key
  isInitialized,
  isServiceAvailable,
  config,              \* the RealityNFTConfig of the instance
  store,               \* the entities of the external store, with their metadata
  calls,               \* the operations in progress or finished, per caller
  queries,             \* per caller, the filter expressions its call has sent
  constructions,       \* createClient calls started
  failures,            \* initialization attempts that failed
  budget               \* operations that may still be called

vars == <<client, cache, isInitialized, isServiceAvailable, config, store,
          calls, queries, constructions, failures, budget>>

service == <<client, isInitialized, isServiceAvailable, constructions, failures>>

\* ------------------------------------------------------------------------
\* utils.ts
\* ------------------------------------------------------------------------
normalizeAddress(address) == toLowerCase(address)

RequiredFields == {"chainId", "rpcUrl", "wsUrl", "targetOwner", "privateKey"}

\* a variant that does not ask for the private key
validateConfig_noKey(cfg) == \A f \in RequiredFields \ {"privateKey"} : ~Falsy(cfg[f])

\* validateConfig returns normally iff no required field is missing
validateConfig(cfg) == \A f \in RequiredFields : ~Falsy(cfg[f])

\* ------------------------------------------------------------------------
\* DataProcessor.ts
\* ------------------------------------------------------------------------
\* the last annotation of each wanted key wins
extractAnnotations(annotations, keys) ==
  LET present == {annotations[i].key : i \in DOMAIN annotations} \cap keys
      last(k) == CHOOSE i \in DOMAIN annotations :
                   /\ annotations[i].key = k
                   /\ \A j \in DOMAIN annotations : annotations[j].key = k => j <= i
  IN [k \in present |-> annotations[last(k)].value]

Thrown == [throws |-> TRUE, value |-> undefined]

Returned(v) == [throws |-> FALSE, value |-> v]

\* the orders in which n promises started together may settle
CompletionOrders ==
  [n \in 0..MaxResult |->
     {order \in [1..n -> 1..n] : \A i, j \in 1..n : order[i] = order[j] => i = j}]

\* a variant that appends each value as its promise settles
RECURSIVE SettleInto_pushed(_, _, _)
SettleInto_pushed(results, values, order) ==
  IF Len(order) = 0 THEN results
  ELSE LET done == Len(results) - Len(order)
       IN SettleInto_pushed([results EXCEPT ![done + 1] = values[Head(order)]],
                            values, Tail(order))

\* Promise.all stores the value of each promise, as it settles, at the
\* index the promise has in the input
RECURSIVE SettleInto(_, _, _)
SettleInto(results, values, order) ==
  IF Len(order) = 0 THEN results
  ELSE SettleInto([results EXCEPT ![Head(order)] = values[Head(order)]],
                  values, Tail(order))

\* what `await Promise.all(promises)` may resolve to, values[i] being what
\* promise i settles with
PromiseAll(values) ==
  LET pending == [i \in DOMAIN values |-> undefined]
  IN {SettleInto(pending, values, order) : order \in CompletionOrders[Len(values)]}

decodeAndDecompressData(base64Data, compressionMethod) ==
  LET gunzip == /\ compressionMethod # null
                /\ toLowerCase(compressionMethod) = COMPRESSION_METHODS.GZIP
  IN IF ~base64Data.base64 THEN Thrown
     ELSE IF gunzip /\ ~base64Data.gzip THEN Thrown
     ELSE IF ~gunzip /\ base64Data.gzip THEN Thrown
     ELSE IF base64Data.json.kind \in {"not json", "empty"} THEN Thrown
     ELSE Returned(base64Data.json)

extractTypeFromData(data, sysCategory) ==
  IF sysCategory = SystemCategory.REALITY_NFT_SPECIAL_VENUES
  THEN IF data.kind = "null" THEN Thrown
       ELSE IF data.kind = "object" THEN Returned(data.type)
       ELSE Returned(undefined)
  ELSE IF data.kind = "null" THEN Thrown
       ELSE IF data.kind # "object" THEN Returned(undefined)
       ELSE IF data.attributes.kind \in {"absent", "null"} THEN Returned(undefined)
       ELSE IF data.attributes.kind # "array" THEN Thrown
       ELSE LET items == data.attributes.items
                hits == {i \in DOMAIN items : items[i].trait_type = ATTRIBUTE_KEYS.TYPE}
            IN IF hits = {} THEN Returned(undefined)
               ELSE Returned(items[CHOOSE i \in hits : \A j \in hits : i <= j].value)

\* ------------------------------------------------------------------------
\* RealityNFTService: pure parts
\* ------------------------------------------------------------------------
getCacheKey(category, tokenId) == category \o ":" \o tokenId

getAttributeKey(sysCategory, baseKey) ==
  IF sysCategory # SystemCategory.REALITY_NFT_SPECIAL_VENUES
  THEN "attr_" \o baseKey
  ELSE baseKey

\* client.getEntityMetaData(entityKey)
getEntityMetaData(entityKey) ==
  LET entity == CHOOSE e \in store : e.entityKey = entityKey
  IN IF entity.metaFails THEN Thrown
     ELSE Returned([owner |-> entity.owner,
                    stringAnnotations |-> entity.stringAnnotations])

\* variant: the addresses compared as written
isOwnedByTargetOwner_exact(entityMetadata) ==
  IF Falsy(entityMetadata.owner) THEN FALSE
  ELSE entityMetadata.owner = config.targetOwner

isOwnedByTargetOwner(entityMetadata) ==
  IF Falsy(entityMetadata.owner) THEN FALSE
  ELSE normalizeAddress(entityMetadata.owner) = normalizeAddress(config.targetOwner)

NullEntity == [isNull |-> TRUE]

ProcessedEntity(tokenId, data) == [isNull |-> FALSE, tokenId |-> tokenId, data |-> data]

Lookup(annotations, k) == IF k \in DOMAIN annotations THEN annotations[k] ELSE undefined

\* a variant that stores the payload it could not decode
processEntityForMultiple_undecoded(entity, sysCategory) ==
  LET md == getEntityMetaData(entity)
  IN IF md.throws THEN NullEntity
     ELSE IF ~isOwnedByTargetOwner(md.value) THEN NullEntity
     ELSE
       LET annotations ==
             extractAnnotations(md.value.stringAnnotations,
               {SYSTEM_ANNOTATION_KEYS.FILE_STEM, SYSTEM_ANNOTATION_KEYS.DATA,
                SYSTEM_ANNOTATION_KEYS.COMPRESSION_METHOD})
           tokenId == Lookup(annotations, SYSTEM_ANNOTATION_KEYS.FILE_STEM)
           hasData == /\ SYSTEM_ANNOTATION_KEYS.DATA \in DOMAIN annotations
                      /\ annotations[SYSTEM_ANNOTATION_KEYS.DATA] # EmptyString
       IN IF Falsy(tokenId) \/ ~hasData THEN NullEntity
          ELSE ProcessedEntity(tokenId, annotations[SYSTEM_ANNOTATION_KEYS.DATA].json)

\* the value processEntityForMultiple resolves to; its cache.set is applied
\* by the batch that awaits it
processEntityForMultiple(entity, sysCategory) ==
  LET md == getEntityMetaData(entity)
  IN IF md.throws THEN NullEntity
     ELSE IF ~isOwnedByTargetOwner(md.value) THEN NullEntity
     ELSE
       LET annotations ==
             extractAnnotations(md.value.stringAnnotations,
               {SYSTEM_ANNOTATION_KEYS.FILE_STEM, SYSTEM_ANNOTATION_KEYS.DATA,
                SYSTEM_ANNOTATION_KEYS.COMPRESSION_METHOD})
           tokenId == Lookup(annotations, SYSTEM_ANNOTATION_KEYS.FILE_STEM)
           hasData == /\ SYSTEM_ANNOTATION_KEYS.DATA \in DOMAIN annotations
                      /\ annotations[SYSTEM_ANNOTATION_KEYS.DATA] # EmptyString
           method == Lookup(annotations, SYSTEM_ANNOTATION_KEYS.COMPRESSION_METHOD)
       IN IF Falsy(tokenId) \/ ~hasData THEN NullEntity
          ELSE LET data == decodeAndDecompressData(
                             annotations[SYSTEM_ANNOTATION_KEYS.DATA],
                             IF Falsy(method) THEN null ELSE method)
               IN IF data.throws THEN NullEntity
                  ELSE ProcessedEntity(tokenId, data.value)

\* the value processEntity (getData) resolves to
processEntity(entity, expectedTokenId, sysCategory) ==
  LET md == getEntityMetaData(entity)
  IN IF md.throws THEN NullEntity
     ELSE IF ~isOwnedByTargetOwner(md.value) THEN NullEntity
     ELSE
       LET annotations ==
             extractAnnotations(md.value.stringAnnotations,
               {SYSTEM_ANNOTATION_KEYS.DATA, SYSTEM_ANNOTATION_KEYS.COMPRESSION_METHOD})
           hasData == /\ SYSTEM_ANNOTATION_KEYS.DATA \in DOMAIN annotations
                      /\ annotations[SYSTEM_ANNOTATION_KEYS.DATA] # EmptyString
           method == Lookup(annotations, SYSTEM_ANNOTATION_KEYS.COMPRESSION_METHOD)
       IN IF ~hasData THEN NullEntity
          ELSE LET data == decodeAndDecompressData(
                             annotations[SYSTEM_ANNOTATION_KEYS.DATA],
                             IF Falsy(method) THEN null ELSE method)
               IN IF data.throws THEN NullEntity
                  ELSE ProcessedEntity(expectedTokenId, data.value)

\* ------------------------------------------------------------------------
\* QueryBuilder.ts.  An absent array parameter is the empty sequence (the
\* builder treats both alike); an absent string parameter is undefined.
\* ------------------------------------------------------------------------
\* QueryBuilder.getAttributeKey (the service has its own copy)
\* a variant that never prefixes
QueryBuilder_getAttributeKey_bare(sysCategory, baseKey) == baseKey

QueryBuilder_getAttributeKey(sysCategory, baseKey) ==
  IF sysCategory # SystemCategory.REALITY_NFT_SPECIAL_VENUES
  THEN "attr_" \o baseKey
  ELSE baseKey

RECURSIVE Join(_, _)
Join(strings, sep) ==
  IF Len(strings) = 0 THEN ""
  ELSE IF Len(strings) = 1 THEN strings[1]
  ELSE strings[1] \o sep \o Join(Tail(strings), sep)

Quoted(s) == "\"" \o s \o "\""

\* a variant that puts the lower-case letter first
RECURSIVE createKeywordPattern_lowerFirst(_)
createKeywordPattern_lowerFirst(keyword) ==
  IF Len(keyword) = 0 THEN ""
  ELSE "[" \o toLowerCase(SubSeq(keyword, 1, 1)) \o toUpperCase(SubSeq(keyword, 1, 1))
       \o "]" \o createKeywordPattern_lowerFirst(SubSeq(keyword, 2, Len(keyword)))

RECURSIVE createKeywordPattern(_)
createKeywordPattern(keyword) ==
  IF Len(keyword) = 0 THEN ""
  ELSE "[" \o toUpperCase(SubSeq(keyword, 1, 1)) \o toLowerCase(SubSeq(keyword, 1, 1))
       \o "]" \o createKeywordPattern(SubSeq(keyword, 2, Len(keyword)))

\* a variant that parenthesizes a single condition too
buildArrayCondition_grouped(key, values) ==
  IF Len(values) = 0 THEN ""
  ELSE " && ("
       \o Join([i \in DOMAIN values |-> key \o " = " \o Quoted(values[i])], " || ")
       \o ")"

buildArrayCondition(key, values) ==
  IF Len(values) = 0 THEN ""
  ELSE IF Len(values) = 1 THEN " && " \o key \o " = " \o Quoted(values[1])
  ELSE " && ("
       \o Join([i \in DOMAIN values |-> key \o " = " \o Quoted(values[i])], " || ")
       \o ")"

QueryParams(tokenIds, sysCategory, tokenTypes, tokenCountry, tokenKeywords, tokenSettlement) ==
  [tokenIds |-> tokenIds, sysCategory |-> sysCategory, tokenTypes |-> tokenTypes,
   tokenCountry |-> tokenCountry, tokenKeywords |-> tokenKeywords,
   tokenSettlement |-> tokenSettlement]

buildQuery(params) ==
  LET base ==
        SYSTEM_ANNOTATION_KEYS.VERSION \o " >= 1 && ("
        \o SYSTEM_ANNOTATION_KEYS.STATUS \o " = " \o Quoted(QUERY_STATUS_VALUES.BOTH)
        \o " || "
        \o SYSTEM_ANNOTATION_KEYS.STATUS \o " = " \o Quoted(QUERY_STATUS_VALUES.PROD)
        \o ") && " \o SYSTEM_ANNOTATION_KEYS.FILE_TYPE \o " = " \o Quoted(FILE_TYPE.JSON)
      category ==
        IF ~Falsy(params.sysCategory)
        THEN " && " \o SYSTEM_ANNOTATION_KEYS.CATEGORY \o " = " \o Quoted(params.sysCategory)
        ELSE ""
      ids ==
        IF Len(params.tokenIds) > 0
        THEN buildArrayCondition(SYSTEM_ANNOTATION_KEYS.FILE_STEM, params.tokenIds)
        ELSE ""
      types ==
        IF Len(params.tokenTypes) > 0
        THEN buildArrayCondition(
               QueryBuilder_getAttributeKey(params.sysCategory, ATTRIBUTE_KEYS.TYPE), params.tokenTypes)
        ELSE ""
      country ==
        IF ~Falsy(params.tokenCountry)
        THEN " && " \o QueryBuilder_getAttributeKey(params.sysCategory, ATTRIBUTE_KEYS.COUNTRY_NAME)
             \o " = " \o Quoted(params.tokenCountry)
        ELSE ""
      keywordConditions ==
        [i \in DOMAIN params.tokenKeywords |->
           "name ~ " \o Quoted("*" \o createKeywordPattern(params.tokenKeywords[i]) \o "*")]
      keywords ==
        IF Len(params.tokenKeywords) > 0
        THEN " && " \o (IF Len(keywordConditions) = 1 THEN keywordConditions[1]
                        ELSE "(" \o Join(keywordConditions, " || ") \o ")")
        ELSE ""
      settlement ==
        IF ~Falsy(params.tokenSettlement)
        THEN " && " \o QueryBuilder_getAttributeKey(params.sysCategory, ATTRIBUTE_KEYS.SETTLEMENT)
             \o " = " \o Quoted(params.tokenSettlement)
        ELSE ""
  IN base \o category \o ids \o types \o country \o keywords \o settlement

AdvancedQueryParams(sysCategory, tokenTypes, tokenCountry, tokenKeywords, tokenSettlement, excludeTokenIds) ==
  [sysCategory |-> sysCategory, tokenTypes |-> tokenTypes,
   tokenCountry |-> tokenCountry, tokenKeywords |-> tokenKeywords,
   tokenSettlement |-> tokenSettlement, excludeTokenIds |-> excludeTokenIds]

buildAdvancedQuery(params) ==
  LET hasCountryAndSettlement ==
        ~Falsy(params.tokenCountry) /\ ~Falsy(params.tokenSettlement)
      base ==
        buildQuery(QueryParams(<<>>, params.sysCategory,
          IF hasCountryAndSettlement THEN <<>> ELSE params.tokenTypes,
          IF hasCountryAndSettlement THEN undefined ELSE params.tokenCountry,
          params.tokenKeywords,
          IF hasCountryAndSettlement THEN undefined ELSE params.tokenSettlement))
      typeKey == QueryBuilder_getAttributeKey(params.sysCategory, ATTRIBUTE_KEYS.TYPE)
      countryKey == QueryBuilder_getAttributeKey(params.sysCategory, ATTRIBUTE_KEYS.COUNTRY_NAME)
      settlementKey == QueryBuilder_getAttributeKey(params.sysCategory, ATTRIBUTE_KEYS.SETTLEMENT)
      both ==
        IF hasCountryAndSettlement
        THEN " && (( " \o typeKey \o " = " \o Quoted(EntityType.COUNTRY)
             \o " && " \o countryKey \o " = " \o Quoted(params.tokenCountry)
             \o ") || (" \o typeKey \o " = " \o Quoted(EntityType.BUILDING)
             \o " && " \o settlementKey \o " = " \o Quoted(params.tokenSettlement)
             \o "))"
        ELSE ""
      exclusionConditions ==
        [i \in DOMAIN params.excludeTokenIds |->
           SYSTEM_ANNOTATION_KEYS.FILE_STEM \o " != " \o Quoted(params.excludeTokenIds[i])]
      exclusions ==
        IF Len(params.excludeTokenIds) > 0
        THEN " && " \o (IF Len(exclusionConditions) = 1 THEN exclusionConditions[1]
                        ELSE "(" \o Join(exclusionConditions, " && ") \o ")")
        ELSE ""
  IN base \o both \o exclusions

\* ------------------------------------------------------------------------
\* RealityNFTService: advanced search, pure parts
\* ------------------------------------------------------------------------
\* the value of the last annotation with key k, or dflt
LastAnnotation(annotations, k, dflt) ==
  LET hits == {i \in DOMAIN annotations : annotations[i].key = k}
  IN IF hits = {} THEN dflt
     ELSE annotations[CHOOSE i \in hits : \A j \in hits : j <= i].value

\* entities.map(entity => this.client.getEntityMetaData(entity.entityKey))
MetadataFetches(entities) ==
  [i \in DOMAIN entities |-> getEntityMetaData(entities[i])]

\* Promise.all over the metadata fetches rejects when one of them does;
\* allMetadata is what it resolves to otherwise
extractEntityInformation(entities, sysCategory, allMetadata) ==
  IF \E i \in DOMAIN allMetadata : allMetadata[i].throws THEN Thrown
  ELSE Returned(
    [index \in DOMAIN entities |->
       LET annotations == allMetadata[index].value.stringAnnotations
       IN [entity |-> entities[index],
           tokenId |-> LastAnnotation(annotations, SYSTEM_ANNOTATION_KEYS.FILE_STEM, null),
           attrType |-> LastAnnotation(annotations,
                          getAttributeKey(sysCategory, ATTRIBUTE_KEYS.TYPE), null),
           attrSettlement |-> LastAnnotation(annotations,
                          getAttributeKey(sysCategory, ATTRIBUTE_KEYS.SETTLEMENT), undefined),
           attrCountryName |-> LastAnnotation(annotations,
                          getAttributeKey(sysCategory, ATTRIBUTE_KEYS.COUNTRY_NAME), undefined)]])

\* entityInfoList.find(info => info.attrType === entityType), 0 when none
FindByType(entityInfoList, entityType) ==
  LET hits == {i \in DOMAIN entityInfoList : entityInfoList[i].attrType = entityType}
  IN IF hits = {} THEN 0 ELSE CHOOSE i \in hits : \A j \in hits : i <= j

\* index in entityInfoList of the selected entity, 0 for null
RECURSIVE selectPriorityFrom(_, _)
selectPriorityFrom(entityInfoList, priority) ==
  IF Len(priority) = 0
  THEN IF Len(entityInfoList) > 0 THEN 1 ELSE 0
  ELSE IF FindByType(entityInfoList, Head(priority)) > 0
       THEN FindByType(entityInfoList, Head(priority))
       ELSE selectPriorityFrom(entityInfoList, Tail(priority))

selectPriorityEntity(entityInfoList) ==
  selectPriorityFrom(entityInfoList, ENTITY_TYPE_PRIORITY)

Truthy(strings) == LET keep(x) == ~Falsy(x) IN SelectSeq(strings, keep)

\* a variant that treats every other type like a country
RelatedQuery_anyType(firstEntityInfo, sysCategory) ==
  IF firstEntityInfo.attrType = EntityType.BUILDING
  THEN buildAdvancedQuery(AdvancedQueryParams(sysCategory,
         <<EntityType.CITY, EntityType.COUNTRY>>, undefined,
         Truthy(<<firstEntityInfo.attrSettlement, firstEntityInfo.attrCountryName>>),
         undefined, <<>>))
  ELSE IF firstEntityInfo.attrType = EntityType.CITY
  THEN buildAdvancedQuery(AdvancedQueryParams(sysCategory,
         <<EntityType.BUILDING, EntityType.COUNTRY>>, firstEntityInfo.attrCountryName,
         <<>>, firstEntityInfo.attrSettlement, <<>>))
  ELSE buildAdvancedQuery(AdvancedQueryParams(sysCategory,
         <<EntityType.CITY, EntityType.BUILDING>>, firstEntityInfo.attrCountryName,
         <<>>, undefined, <<>>))

\* the advancedQuery of fetchRelatedEntities, null when none is built
RelatedQuery(firstEntityInfo, sysCategory) ==
  IF firstEntityInfo.attrType = EntityType.BUILDING
  THEN buildAdvancedQuery(AdvancedQueryParams(sysCategory,
         <<EntityType.CITY, EntityType.COUNTRY>>, undefined,
         Truthy(<<firstEntityInfo.attrSettlement, firstEntityInfo.attrCountryName>>),
         undefined, <<>>))
  ELSE IF firstEntityInfo.attrType = EntityType.COUNTRY
  THEN buildAdvancedQuery(AdvancedQueryParams(sysCategory,
         <<EntityType.CITY, EntityType.BUILDING>>, firstEntityInfo.attrCountryName,
         <<>>, undefined, <<>>))
  ELSE IF firstEntityInfo.attrType = EntityType.CITY
  THEN buildAdvancedQuery(AdvancedQueryParams(sysCategory,
         <<EntityType.BUILDING, EntityType.COUNTRY>>, firstEntityInfo.attrCountryName,
         <<>>, firstEntityInfo.attrSettlement, <<>>))
  ELSE null

EntityTypes == {EntityType.BUILDING, EntityType.CITY, EntityType.COUNTRY}

\* names every object inherits; looking one up in a plain object yields a
\* truthy value that is neither a bucket nor an array
ObjectPrototypeKeys ==
  {"constructor", "toString", "valueOf", "hasOwnProperty", "isPrototypeOf",
   "propertyIsEnumerable", "toLocaleString", "__proto__"}

EmptyCategorized ==
  [t \in EntityTypes |-> EmptyObject]

\* the loop of categorizeEntitiesByType over the processed entities
RECURSIVE categorizeLoop(_, _, _)
categorizeLoop(categorized, entityResults, sysCategory) ==
  IF Len(entityResults) = 0 THEN Returned(categorized)
  ELSE LET result == Head(entityResults)
       IN IF result.isNull
          THEN categorizeLoop(categorized, Tail(entityResults), sysCategory)
          ELSE LET entityAttrType == extractTypeFromData(result.data, sysCategory)
               IN IF entityAttrType.throws THEN Thrown
                  ELSE IF entityAttrType.value \in EntityTypes
                  THEN categorizeLoop(
                         [categorized EXCEPT ![entityAttrType.value] =
                            Put(@, result.tokenId, result.data)],
                         Tail(entityResults), sysCategory)
                  \* no own bucket: nothing is stored in categorized
                  ELSE categorizeLoop(categorized, Tail(entityResults), sysCategory)

categorizeEntitiesByType(entityResults, sysCategory) ==
  categorizeLoop(EmptyCategorized, entityResults, sysCategory)

\* variant: the city rotation with its last two buckets exchanged
orderMap_swapped ==
  [building |-> <<EntityType.BUILDING, EntityType.CITY, EntityType.COUNTRY>>,
   country |-> <<EntityType.COUNTRY, EntityType.CITY, EntityType.BUILDING>>,
   city |-> <<EntityType.CITY, EntityType.COUNTRY, EntityType.BUILDING>>]

orderMap ==
  [building |-> <<EntityType.BUILDING, EntityType.CITY, EntityType.COUNTRY>>,
   country |-> <<EntityType.COUNTRY, EntityType.CITY, EntityType.BUILDING>>,
   city |-> <<EntityType.CITY, EntityType.BUILDING, EntityType.COUNTRY>>]

\* variant: every key of typeData is appended
RECURSIVE appendNewKeys_unchecked(_, _, _)
appendNewKeys_unchecked(acc, keys, typeData) ==
  IF Len(keys) = 0 THEN acc
  ELSE appendNewKeys_unchecked(
         [keys |-> Append(acc.keys, Head(keys)),
          data |-> (Head(keys) :> typeData.vals[Head(keys)]) @@ acc.data],
         Tail(keys), typeData)

\* the inner loop of orderResultsByType: the keys of typeData that
\* orderedKeys does not hold yet are appended, with their data
RECURSIVE appendNewKeys(_, _, _)
appendNewKeys(acc, keys, typeData) ==
  IF Len(keys) = 0 THEN acc
  ELSE appendNewKeys(
         IF Head(keys) \in Range(acc.keys) THEN acc
         ELSE [keys |-> Append(acc.keys, Head(keys)),
               data |-> (Head(keys) :> typeData.vals[Head(keys)]) @@ acc.data],
         Tail(keys), typeData)

RECURSIVE appendBuckets(_, _, _)
appendBuckets(acc, order, categorizedResults) ==
  IF Len(order) = 0 THEN acc
  ELSE appendBuckets(
         appendNewKeys(acc, ObjectKeys(categorizedResults[Head(order)]),
                       categorizedResults[Head(order)]),
         Tail(order), categorizedResults)

\* {keys: orderedKeys, data: allData}; an attrType naming an inherited
\* property makes `order` a non-iterable value and the loop throws
orderResultsByType(firstEntityData, firstEntityTokenId, attrType, categorizedResults) ==
  LET first == IF ~Falsy(firstEntityTokenId) /\ ~firstEntityData.isNull
               THEN [keys |-> <<firstEntityTokenId>>,
                     data |-> (firstEntityTokenId :> firstEntityData.data)]
               ELSE [keys |-> <<>>, data |-> <<>>]
  IN IF Falsy(attrType) THEN Returned(first)
     ELSE IF attrType \in EntityTypes
     THEN Returned(appendBuckets(first, orderMap[attrType], categorizedResults))
     ELSE IF attrType \in ObjectPrototypeKeys THEN Thrown
     ELSE Returned(first)

Min(a, b) == IF a <= b THEN a ELSE b

Max(a, b) == IF a >= b THEN a ELSE b

\* A nullable number (limit, endIndex) is <<>> for null or undefined and
\* <<n>> for the number n; an omitted requiredItem is <<>>, a given one <<x>>.
NoNumber == <<>>

\* a variant that takes the element at endIndex too
slice_inclusive(items, startIndex, endIndex) ==
  SubSeq(items, startIndex + 1,
         IF endIndex = NoNumber THEN Len(items) ELSE Min(endIndex[1] + 1, Len(items)))

\* items.slice(startIndex, endIndex)
slice(items, startIndex, endIndex) ==
  SubSeq(items, startIndex + 1,
         IF endIndex = NoNumber THEN Len(items) ELSE Min(endIndex[1], Len(items)))

\* a variant that ignores skip
applySkipAndLimit_noSkip(items, skip, limit, requiredItem) ==
  LET endIndex == IF limit # NoNumber /\ limit[1] > 0 THEN <<limit[1]>> ELSE NoNumber
      result == slice(items, 0, endIndex)
  IN IF /\ Len(requiredItem) > 0
        /\ ~Falsy(requiredItem[1])
        /\ requiredItem[1] \notin Range(result)
     THEN IF limit # NoNumber /\ limit[1] # 0 /\ Len(result) >= limit[1]
          THEN Append(SubSeq(result, 1, Len(result) - 1), requiredItem[1])
          ELSE Append(result, requiredItem[1])
     ELSE result

\* a variant that never evicts
applySkipAndLimit_appends(items, skip, limit, requiredItem) ==
  LET startIndex == Max(0, skip)
      endIndex == IF limit # NoNumber /\ limit[1] > 0
                  THEN <<startIndex + limit[1]>> ELSE NoNumber
      result == slice(items, startIndex, endIndex)
  IN IF /\ Len(requiredItem) > 0
        /\ ~Falsy(requiredItem[1])
        /\ requiredItem[1] \notin Range(result)
     THEN Append(result, requiredItem[1])
     ELSE result

applySkipAndLimit(items, skip, limit, requiredItem) ==
  LET startIndex == Max(0, skip)
      endIndex == IF limit # NoNumber /\ limit[1] > 0
                  THEN <<startIndex + limit[1]>> ELSE NoNumber
      result == slice(items, startIndex, endIndex)
  IN IF /\ Len(requiredItem) > 0
        /\ ~Falsy(requiredItem[1])
        /\ requiredItem[1] \notin Range(result)
     THEN IF limit # NoNumber /\ limit[1] # 0 /\ Len(result) >= limit[1]
          THEN Append(SubSeq(result, 1, Len(result) - 1), requiredItem[1])
          ELSE Append(result, requiredItem[1])
     ELSE result

\* ------------------------------------------------------------------------
\* Store contents and configurations the model runs on
\* ------------------------------------------------------------------------
ValidConfig ==
  [chainId |-> "60138453032", rpcUrl |-> "https://rpc", wsUrl |-> "wss://ws",
   targetOwner |-> "0xAb", privateKey |-> "d4fa"]

Json(n, t) == Payload(TRUE, FALSE, NftJson(t, n))

Country613 ==
  StoreEntity("k1", "0xaB", FALSE,
    Annotations("attr_", "613", "country", undefined, "PL", Json("Poland", "country")))

City277 ==
  StoreEntity("k2", "0xAb", FALSE,
    Annotations("attr_", "277", "city", "Krakow", "PL", Json("Krakow", "city")))

BuildingB7 ==
  StoreEntity("k3", "0xAB", FALSE,
    Annotations("attr_", "b7", "building", "Krakow", "PL", Json("Wawel", "building")))

City1000 ==
  StoreEntity("k4", "0xAb", FALSE,
    Annotations("attr_", "1000", "city", "Gdansk", "PL", Json("Gdansk", "city")))

Park9 ==
  StoreEntity("k5", "0xAb", FALSE,
    Annotations("attr_", "9", "park", "Krakow", "PL", Json("Planty", "park")))

Untyped ==
  StoreEntity("k6", "0xAb", FALSE,
    Annotations("attr_", "n1", undefined, undefined, undefined,
                Payload(TRUE, FALSE, PlainJson("Plain"))))

CountryOfOther ==
  StoreEntity("k7", "0xCd", FALSE,
    Annotations("attr_", "42", "country", undefined, "DE", Json("Germany", "country")))

Unreachable ==
  StoreEntity("k8", "0xAb", TRUE,
    Annotations("attr_", "8", "city", "Lodz", "PL", Json("Lodz", "city")))

CityNullJson ==
  StoreEntity("k9", "0xAb", FALSE,
    Annotations("attr_", "6", "city", "Opole", "PL", Payload(TRUE, FALSE, JsonNull)))

CityNoOwner ==
  StoreEntity("k10", undefined, FALSE,
    Annotations("attr_", "277", "city", "Krakow", "PL", Json("Stolen", "city")))

BuildingBadData ==
  StoreEntity("k11", "0xAb", FALSE,
    Annotations("attr_", "b7", "building", "Krakow", "PL", Payload(TRUE, FALSE, NotJson)))

City5 ==
  StoreEntity("k12", "0xAb", FALSE,
    Annotations("attr_", "5", "city", "Torun", "PL", Json("Torun", "city")))

Building5 ==
  StoreEntity("k13", "0xAb", FALSE,
    Annotations("attr_", "5", "building", "Torun", "PL", Json("Tower", "building")))

VenueCity ==
  StoreEntity("k14", "0xab", FALSE,
    Annotations("", "v1", "city", "Krakow", "PL",
                Payload(TRUE, TRUE, VenueJson("city", "Arena")))
    \o <<Annotation("_sys_compression_method", "GZIP")>>)

VenueBuilding ==
  StoreEntity("k15", "0xAb", FALSE,
    Annotations("", "12", "building", "Krakow", "PL",
                Payload(TRUE, FALSE, VenueJson("building", "Hall"))))

Stores ==
  { {Country613, City277, BuildingB7},
    {Country613, City1000, City277},
    {Park9, Untyped, CountryOfOther},
    {Unreachable, CityNullJson, Country613},
    {CityNoOwner, BuildingBadData, Country613},
    {City5, Building5, Country613},
    {VenueCity, VenueBuilding, City277},
    {Country613, City277, CityNullJson} }

\* the stores of the runs of several calls: owners and failures of every kind
ServiceStores ==
  { {CityNoOwner, BuildingBadData, Country613},
    {Unreachable, CityNullJson, Country613},
    {City5, Building5, CountryOfOther} }

\* sysCategory is a string: the two categories of the enum, and another one
Categories ==
  {SystemCategory.REALITY_NFT_METADATA, SystemCategory.REALITY_NFT_SPECIAL_VENUES,
   "REALITY_NFT_METADATA:v2"}

\* what client.queryEntities may resolve to: any list of store entities
Results(entities) ==
  UNION {[1..n -> {e.entityKey : e \in entities}] : n \in 0..MaxResult}

Idle == [pc |-> "idle"]

EmptyDefault == [data |-> EmptyObject, totalCount |-> 0]

Return(call, value) == [call EXCEPT !.pc = "done", !.ret = value]

Raise(call, error) == [call EXCEPT !.pc = "done", !.raised = error]

CanCall(p) == calls[p].pc \in {"idle", "done"} /\ budget > 0

\* this.client.queryEntities(query), called by p
Send(p, query) == queries' = [queries EXCEPT ![p] = Append(@, query)]

\* a variant that never replaces an entry
CacheSets_keepFirst(c, entityResults, sysCategory) ==
  LET hits == {i \in DOMAIN entityResults : ~entityResults[i].isNull}
      keyOf(i) == getCacheKey(sysCategory, entityResults[i].tokenId)
      keys == {keyOf(i) : i \in hits}
      lastWrites == {w \in [keys -> hits] : \A k \in keys : keyOf(w[k]) = k}
  IN {[k \in DOMAIN c \cup keys |->
         IF k \in DOMAIN c THEN c[k] ELSE entityResults[w[k]].data] : w \in lastWrites}

\* cache.set for every processed entity.  The sets run in the order the
\* concurrently awaited metadata fetches complete, so the write a key is
\* left with may be any of the writes to it.
CacheSets(c, entityResults, sysCategory) ==
  LET hits == {i \in DOMAIN entityResults : ~entityResults[i].isNull}
      keyOf(i) == getCacheKey(sysCategory, entityResults[i].tokenId)
      keys == {keyOf(i) : i \in hits}
      lastWrites == {w \in [keys -> hits] : \A k \in keys : keyOf(w[k]) = k}
  IN {[k \in DOMAIN c \cup keys |->
         IF k \in keys THEN entityResults[w[k]].data ELSE c[k]] : w \in lastWrites}

\* results[result.tokenId] = result.data for every non-null result
RECURSIVE CollectResults(_, _)
CollectResults(results, entityResults) ==
  IF Len(entityResults) = 0 THEN results
  ELSE CollectResults(
         IF Head(entityResults).isNull THEN results
         ELSE Put(results, Head(entityResults).tokenId, Head(entityResults).data),
         Tail(entityResults))

\* parseInt(s, 10) is NaN unless s starts with a digit (after blanks and a sign)
RECURSIVE parseIntIsNaN(_)
parseIntIsNaN(s) ==
  IF Len(s) = 0 THEN TRUE
  ELSE IF SubSeq(s, 1, 1) = " " THEN parseIntIsNaN(SubSeq(s, 2, Len(s)))
  ELSE IF SubSeq(s, 1, 1) \in {"+", "-"}
       THEN Len(s) < 2 \/ SubSeq(s, 2, 2) \notin DOMAIN DigitOf
       ELSE SubSeq(s, 1, 1) \notin DOMAIN DigitOf

\* ------------------------------------------------------------------------
\* initialize()
\* ------------------------------------------------------------------------
\* what the caller of a failed initialize() does: isAvailable returns false,
\* every other operation lets InitializationError through
InitializationFailed(call) ==
  IF call.op = "isAvailable" THEN Return(call, FALSE)
  ELSE Raise(call, "InitializationError")

\* a variant in which a call that finds a construction under way waits
\* for a wake-up that nothing sends
initialize_waits(p, call) ==
  IF isInitialized
  THEN /\ calls' = [calls EXCEPT ![p] = [call EXCEPT !.pc = "body"]]
       /\ UNCHANGED service
  ELSE IF constructions > 0
  THEN /\ calls' = [calls EXCEPT ![p] = [call EXCEPT !.pc = "waiting"]]
       /\ UNCHANGED service
  ELSE IF ~validateConfig(config) \/ parseIntIsNaN(config.chainId)
  THEN /\ isServiceAvailable' = FALSE
       /\ isInitialized' = TRUE
       /\ failures' = failures + 1
       /\ calls' = [calls EXCEPT ![p] = InitializationFailed(call)]
       /\ UNCHANGED <<client, constructions>>
  ELSE /\ constructions' = constructions + 1
       /\ calls' = [calls EXCEPT ![p] = [call EXCEPT !.pc = "createClient"]]
       /\ UNCHANGED <<client, isInitialized, isServiceAvailable, failures>>

\* initialize() up to its first await, entered by the call `call` of p
initialize(p, call) ==
  IF isInitialized
  THEN /\ calls' = [calls EXCEPT ![p] = [call EXCEPT !.pc = "body"]]
       /\ UNCHANGED service
  ELSE IF ~validateConfig(config) \/ parseIntIsNaN(config.chainId)
  THEN /\ isServiceAvailable' = FALSE
       /\ isInitialized' = TRUE
       /\ failures' = failures + 1
       /\ calls' = [calls EXCEPT ![p] = InitializationFailed(call)]
       /\ UNCHANGED <<client, constructions>>
  ELSE /\ constructions' = constructions + 1
       /\ calls' = [calls EXCEPT ![p] = [call EXCEPT !.pc = "createClient"]]
       /\ UNCHANGED <<client, isInitialized, isServiceAvailable, failures>>

\* the awaited createClient of p settles
createClient(p) ==
  /\ calls[p].pc = "createClient"
  /\ \/ /\ client' = "client"
        /\ isInitialized' = TRUE
        /\ isServiceAvailable' = TRUE
        /\ calls' = [calls EXCEPT ![p].pc = "body"]
        /\ UNCHANGED failures
     \/ /\ isServiceAvailable' = FALSE
        /\ isInitialized' = TRUE
        /\ failures' = failures + 1
        /\ calls' = [calls EXCEPT ![p] = InitializationFailed(calls[p])]
        /\ UNCHANGED client
  /\ UNCHANGED <<cache, config, store, queries, constructions, budget>>

\* ------------------------------------------------------------------------
\* Operations.  An operation runs from its call to the first await it
\* reaches; the continuation after the awaited store calls is its body.
\* ------------------------------------------------------------------------
Pending == [pending |-> TRUE]

\* failuresBefore: the failed initializations before the call was made
NewCall(op, args) ==
  args @@ [op |-> op, pc |-> "start", ret |-> Pending, raised |-> "",
           failuresBefore |-> failures]

With(call, fields) == fields @@ call

TokenIdArgs == {"613", "5"}

TokenIdListArgs == {<<>>, <<"613">>, <<"5", "613">>}

SkipArgs == 0..MaxSkip

LimitArgs == {NoNumber} \cup {<<n>> : n \in 0..MaxLimit}

\* results.find(result => result !== null) ?? null
FirstNonNull(entityResults) ==
  LET hits == {i \in DOMAIN entityResults :
                 ~entityResults[i].isNull /\ entityResults[i].data # JsonNull}
  IN IF hits = {} THEN JsonNull
     ELSE entityResults[CHOOSE i \in hits : \A j \in hits : i <= j].data

getData(p) ==
  /\ CanCall(p)
  /\ budget' = budget - 1
  /\ \E tokenId \in TokenIdArgs, sysCategory \in Categories :
       LET call == NewCall("getData", [tokenId |-> tokenId, sysCategory |-> sysCategory,
                                       cached |-> MapHas(cache, getCacheKey(sysCategory, tokenId))])
       IN IF MapHas(cache, getCacheKey(sysCategory, tokenId))
          THEN /\ calls' = [calls EXCEPT ![p] =
                              Return(call, cache[getCacheKey(sysCategory, tokenId)])]
               /\ UNCHANGED service
          ELSE initialize(p, call)
  /\ queries' = [queries EXCEPT ![p] = <<>>]
  /\ UNCHANGED <<cache, config, store>>

\* getData after initialize(): query, process every match, first non-null
getDataBody(p) ==
  /\ calls[p].pc = "body"
  /\ calls[p].op = "getData"
  /\ UNCHANGED <<service, config, store, budget>>
  /\ IF client = null
     THEN \* this.client.queryEntities throws inside the try
          /\ calls' = [calls EXCEPT ![p] = Return(@, JsonNull)]
          /\ UNCHANGED <<cache, queries>>
     ELSE
       /\ Send(p,
            buildQuery(QueryParams(<<calls[p].tokenId>>, calls[p].sysCategory,
                                   <<>>, undefined, <<>>, undefined)))
       /\ \/ \* queryEntities rejects
             /\ calls' = [calls EXCEPT ![p] = Return(With(@, [queryFailed |-> TRUE]), JsonNull)]
             /\ UNCHANGED cache
          \/ \E entities \in Results(store) :
               \E entityResults \in PromiseAll(
                     [i \in DOMAIN entities |->
                        processEntity(entities[i], calls[p].tokenId,
                                      calls[p].sysCategory)]) :
               \E written \in CacheSets(cache, entityResults, calls[p].sysCategory) :
                    /\ cache' = written
                    /\ calls' = [calls EXCEPT ![p] =
                         Return(With(@, [queryFailed |-> FALSE, entities |-> entities]),
                                FirstNonNull(entityResults))]

getMultipleData(p) ==
  /\ CanCall(p)
  /\ budget' = budget - 1
  /\ \E tokenIds \in TokenIdListArgs, sysCategory \in Categories :
       LET call == NewCall("getMultipleData",
                           [tokenIds |-> tokenIds, sysCategory |-> sysCategory])
       IN IF Len(tokenIds) = 0
          THEN /\ calls' = [calls EXCEPT ![p] = Return(call, EmptyObject)]
               /\ UNCHANGED service
          ELSE initialize(p, call)
  /\ queries' = [queries EXCEPT ![p] = <<>>]
  /\ UNCHANGED <<cache, config, store>>

\* a variant that forgets the cached part
CachedResults_none(results, c, tokenIds, sysCategory) == results

\* the cached part of the requested ids, as results[tokenId] = cachedData
RECURSIVE CachedResults(_, _, _, _)
CachedResults(results, c, tokenIds, sysCategory) ==
  IF Len(tokenIds) = 0 THEN results
  ELSE CachedResults(
         IF MapHas(c, getCacheKey(sysCategory, Head(tokenIds)))
         THEN Put(results, Head(tokenIds), c[getCacheKey(sysCategory, Head(tokenIds))])
         ELSE results,
         c, Tail(tokenIds), sysCategory)

getMultipleDataBody(p) ==
  /\ calls[p].pc = "body"
  /\ calls[p].op = "getMultipleData"
  /\ UNCHANGED <<service, config, store, budget>>
  /\ LET sysCategory == calls[p].sysCategory
         results == CachedResults(EmptyObject, cache, calls[p].tokenIds, sysCategory)
         isUncached(t) == ~MapHas(cache, getCacheKey(sysCategory, t))
         uncachedTokenIds == SelectSeq(calls[p].tokenIds, isUncached)
     IN IF Len(uncachedTokenIds) = 0
        THEN /\ calls' = [calls EXCEPT ![p] = Return(With(@, [uncached |-> <<>>]), results)]
             /\ UNCHANGED <<cache, queries>>
        ELSE IF client = null
        THEN /\ calls' = [calls EXCEPT ![p] =
                            Return(With(@, [uncached |-> uncachedTokenIds]), results)]
             /\ UNCHANGED <<cache, queries>>
        ELSE
          /\ Send(p,
               buildQuery(QueryParams(uncachedTokenIds, sysCategory,
                                      <<>>, undefined, <<>>, undefined)))
          /\ \/ /\ calls' = [calls EXCEPT ![p] =
                      Return(With(@, [uncached |-> uncachedTokenIds, queryFailed |-> TRUE]),
                             results)]
                /\ UNCHANGED cache
             \/ \E entities \in Results(store) :
                  \E entityResults \in PromiseAll(
                        [i \in DOMAIN entities |->
                           processEntityForMultiple(entities[i], sysCategory)]) :
                  \E written \in CacheSets(cache, entityResults, sysCategory) :
                       /\ cache' = written
                       /\ calls' = [calls EXCEPT ![p] =
                            Return(With(@, [uncached |-> uncachedTokenIds,
                                            queryFailed |-> FALSE,
                                            entities |-> entities]),
                                   CollectResults(results, entityResults))]

\* the filter options of getAllData other than the category
NoFilters ==
  [tokenTypes |-> <<>>, tokenCategories |-> <<>>, tokenCountry |-> undefined,
   tokenKeywords |-> <<>>, tokenSettlement |-> undefined]

\* the filter options of a search: none, every option given, and every
\* option given with one of them changed to another value
FilterArgs ==
  LET given == [tokenTypes |-> <<EntityType.CITY>>,
                tokenCategories |-> <<"land">>,
                tokenCountry |-> "PL",
                tokenKeywords |-> <<"ab">>,
                tokenSettlement |-> "Krakow"]
      other == [tokenTypes |-> <<EntityType.BUILDING>>,
                tokenCategories |-> <<"art">>,
                tokenCountry |-> "DE",
                tokenKeywords |-> <<"X1">>,
                tokenSettlement |-> "Lodz"]
  IN {NoFilters, given} \cup {[given EXCEPT ![o] = other[o]] : o \in DOMAIN other}

\* buildQuery receives tokenCategories too, and does not read it
InitialQuery(call) ==
  buildQuery(QueryParams(<<>>, call.sysCategory, call.filters.tokenTypes,
                         call.filters.tokenCountry, call.filters.tokenKeywords,
                         call.filters.tokenSettlement))

\* options.skip and options.limit are inputs of the step that reads them
\* (applySkipAndLimit); nothing before it depends on them
\* getAllData called with a category and filter options of the given sets
getAllDataOf(p, advancedSearch, categories, filterArgs) ==
  /\ CanCall(p)
  /\ budget' = budget - 1
  /\ \E sysCategory \in categories, filters \in filterArgs :
       initialize(p, NewCall("getAllData",
         [sysCategory |-> sysCategory, filters |-> filters,
          advancedSearch |-> advancedSearch]))
  /\ queries' = [queries EXCEPT ![p] = <<>>]
  /\ UNCHANGED <<cache, config, store>>

getAllData(p, advancedSearch) ==
  getAllDataOf(p, advancedSearch, Categories, FilterArgs)

performStandardSearch(p) ==
  /\ calls[p].pc = "body"
  /\ calls[p].op = "getAllData"
  /\ ~calls[p].advancedSearch
  /\ UNCHANGED <<service, config, store, budget>>
  /\ IF client = null
     THEN /\ calls' = [calls EXCEPT ![p] = Return(@, EmptyDefault)]
          /\ UNCHANGED <<cache, queries>>
     ELSE
       /\ Send(p, InitialQuery(calls[p]))
       /\ \/ /\ calls' = [calls EXCEPT ![p] =
                   Return(With(@, [queryFailed |-> TRUE]), EmptyDefault)]
             /\ UNCHANGED cache
          \/ \E entities \in Results(store), skip \in SkipArgs, limit \in LimitArgs :
               LET processedEntities == applySkipAndLimit(entities, skip, limit, <<>>)
               IN \E entityResults \in PromiseAll(
                     [i \in DOMAIN processedEntities |->
                        processEntityForMultiple(processedEntities[i],
                                                 calls[p].sysCategory)]) :
                  \E written \in CacheSets(cache, entityResults, calls[p].sysCategory) :
                    /\ cache' = written
                    /\ calls' = [calls EXCEPT ![p] =
                         Return(With(@, [queryFailed |-> FALSE, entities |-> entities,
                                         skip |-> skip, limit |-> limit,
                                         processedEntities |-> processedEntities]),
                                [data |-> CollectResults(EmptyObject, entityResults),
                                 totalCount |-> Len(entities)])]

isAvailable(p) ==
  /\ CanCall(p)
  /\ budget' = budget - 1
  /\ IF isInitialized
     THEN /\ calls' = [calls EXCEPT ![p] =
                         Return(NewCall("isAvailable", <<>>), isServiceAvailable)]
          /\ UNCHANGED service
     ELSE initialize(p, NewCall("isAvailable", <<>>))
  /\ queries' = [queries EXCEPT ![p] = <<>>]
  /\ UNCHANGED <<cache, config, store>>

isAvailableBody(p) ==
  /\ calls[p].pc = "body"
  /\ calls[p].op = "isAvailable"
  /\ calls' = [calls EXCEPT ![p] = Return(@, isServiceAvailable)]
  /\ UNCHANGED <<service, cache, config, store, queries, budget>>

\* ------------------------------------------------------------------------
\* getAllData, advanced path
\* ------------------------------------------------------------------------
\* the initial query and the check for an empty result
performAdvancedSearch(p) ==
  /\ calls[p].pc = "body"
  /\ calls[p].op = "getAllData"
  /\ calls[p].advancedSearch
  /\ UNCHANGED <<service, cache, config, store, budget>>
  /\ IF client = null
     THEN /\ calls' = [calls EXCEPT ![p] = Return(@, EmptyDefault)]
          /\ UNCHANGED queries
     ELSE
       /\ Send(p, InitialQuery(calls[p]))
       /\ \/ calls' = [calls EXCEPT ![p] =
                         Return(With(@, [queryFailed |-> TRUE]), EmptyDefault)]
          \/ \E initialEntities \in Results(store) :
               calls' = [calls EXCEPT ![p] =
                 IF Len(initialEntities) = 0
                 THEN Return(With(@, [queryFailed |-> FALSE,
                                      initialEntities |-> initialEntities]),
                             EmptyDefault)
                 ELSE With(@, [pc |-> "related", queryFailed |-> FALSE,
                               initialEntities |-> initialEntities])]

\* extractEntityInformation, selectPriorityEntity and fetchRelatedEntities
fetchRelatedEntities(p) ==
  /\ calls[p].pc = "related"
  /\ UNCHANGED <<service, cache, config, store, budget>>
  /\ \E allMetadata \in PromiseAll(MetadataFetches(calls[p].initialEntities)) :
     LET info == extractEntityInformation(calls[p].initialEntities,
                                          calls[p].sysCategory, allMetadata)
     IN IF info.throws
        THEN /\ calls' = [calls EXCEPT ![p] =
                            Return(With(@, [metadataFailed |-> TRUE]), EmptyDefault)]
             /\ UNCHANGED queries
        ELSE
          LET entityInfoList == info.value
              selected == selectPriorityEntity(entityInfoList)
              firstEntityInfo == entityInfoList[selected]
              advancedQuery == RelatedQuery(firstEntityInfo, calls[p].sysCategory)
              found == [metadataFailed |-> FALSE, entityInfoList |-> entityInfoList,
                        firstEntityInfo |-> firstEntityInfo]
          IN IF advancedQuery = null
             THEN /\ calls' = [calls EXCEPT ![p] =
                      With(@, found @@ [pc |-> "categorize", relatedFailed |-> FALSE,
                                        allEntities |-> <<>>])]
                  /\ UNCHANGED queries
             ELSE
               /\ Send(p, advancedQuery)
               /\ \/ calls' = [calls EXCEPT ![p] =
                        Return(With(@, found @@ [relatedFailed |-> TRUE]), EmptyDefault)]
                  \/ \E allEntities \in Results(store) :
                       calls' = [calls EXCEPT ![p] =
                         With(@, found @@ [pc |-> "categorize", relatedFailed |-> FALSE,
                                           allEntities |-> allEntities])]

\* finalResults[key] = allData[key] for the keys of the page
RECURSIVE PickResults(_, _, _)
PickResults(finalResults, processedKeys, allData) ==
  IF Len(processedKeys) = 0 THEN finalResults
  ELSE PickResults(Put(finalResults, Head(processedKeys), allData[Head(processedKeys)]),
                   Tail(processedKeys), allData)

\* categorizeEntitiesByType, the anchor's own processing and
\* orderResultsByType
categorizeAndOrder(p) ==
  /\ calls[p].pc = "categorize"
  /\ UNCHANGED <<service, config, store, queries, budget>>
  /\ \E entityResults \in PromiseAll(
          [i \in DOMAIN calls[p].allEntities |->
             processEntityForMultiple(calls[p].allEntities[i], calls[p].sysCategory)]) :
     LET sysCategory == calls[p].sysCategory
         firstEntityInfo == calls[p].firstEntityInfo
         categorizedResults == categorizeEntitiesByType(entityResults, sysCategory)
         firstEntityData == processEntityForMultiple(firstEntityInfo.entity, sysCategory)
         ordered == orderResultsByType(firstEntityData, firstEntityInfo.tokenId,
                      firstEntityInfo.attrType, categorizedResults.value)
         trace == [entityResults |-> entityResults, typeFailed |-> FALSE,
                   categorizedResults |-> categorizedResults.value,
                   firstEntityData |-> firstEntityData]
     IN \E related \in CacheSets(cache, entityResults, sysCategory) :
             IF categorizedResults.throws
             THEN /\ cache' = related
                  /\ calls' = [calls EXCEPT ![p] =
                       Return(With(@, [entityResults |-> entityResults,
                                       typeFailed |-> TRUE]), EmptyDefault)]
             ELSE
               /\ cache' = IF firstEntityData.isNull THEN related
                           ELSE MapSet(related,
                                  getCacheKey(sysCategory, firstEntityData.tokenId),
                                  firstEntityData.data)
               /\ calls' = [calls EXCEPT ![p] =
                    IF ordered.throws
                    THEN Return(With(@, trace @@ [orderFailed |-> TRUE]), EmptyDefault)
                    ELSE IF Len(ordered.value.keys) = 0
                    THEN Return(With(@, trace @@ [orderFailed |-> FALSE,
                                                  orderedKeys |-> <<>>]),
                                EmptyDefault)
                    ELSE With(@, trace @@ [pc |-> "page", orderFailed |-> FALSE,
                                           orderedKeys |-> ordered.value.keys,
                                           allData |-> ordered.value.data])]

\* a variant that counts the keys of the page
paginate_countsPage(p) ==
  /\ calls[p].pc = "page"
  /\ UNCHANGED <<service, cache, config, store, queries, budget>>
  /\ \E skip \in SkipArgs, limit \in LimitArgs :
       LET processedKeys == applySkipAndLimit(calls[p].orderedKeys, skip, limit, <<>>)
       IN calls' = [calls EXCEPT ![p] =
            Return(With(@, [skip |-> skip, limit |-> limit,
                            processedKeys |-> processedKeys]),
              [data |-> PickResults(EmptyObject, processedKeys, calls[p].allData),
               totalCount |-> Len(processedKeys),
               referenceId |->
                 IF calls[p].firstEntityInfo.tokenId = null THEN undefined
                 ELSE calls[p].firstEntityInfo.tokenId,
               referenceType |->
                 IF calls[p].firstEntityInfo.attrType = null THEN undefined
                 ELSE calls[p].firstEntityInfo.attrType])]

\* applySkipAndLimit on the ordered keys, and the result
paginate(p) ==
  /\ calls[p].pc = "page"
  /\ UNCHANGED <<service, cache, config, store, queries, budget>>
  /\ \E skip \in SkipArgs, limit \in LimitArgs :
       LET processedKeys == applySkipAndLimit(calls[p].orderedKeys, skip, limit, <<>>)
       IN calls' = [calls EXCEPT ![p] =
            Return(With(@, [skip |-> skip, limit |-> limit,
                            processedKeys |-> processedKeys]),
              [data |-> PickResults(EmptyObject, processedKeys, calls[p].allData),
               totalCount |-> Len(calls[p].orderedKeys),
               referenceId |->
                 IF calls[p].firstEntityInfo.tokenId = null THEN undefined
                 ELSE calls[p].firstEntityInfo.tokenId,
               referenceType |->
                 IF calls[p].firstEntityInfo.attrType = null THEN undefined
                 ELSE calls[p].firstEntityInfo.attrType])]

\* ------------------------------------------------------------------------
\* Cache management.  These operations are synchronous.
\* ------------------------------------------------------------------------
clearCache(p) ==
  /\ CanCall(p)
  /\ budget' = budget - 1
  /\ cache' = EmptyMap
  /\ calls' = [calls EXCEPT ![p] = Return(NewCall("clearCache", <<>>), undefined)]
  /\ queries' = [queries EXCEPT ![p] = <<>>]
  /\ UNCHANGED <<service, config, store>>

\* String.prototype.startsWith
startsWith(s, prefix) ==
  Len(s) >= Len(prefix) /\ SubSeq(s, 1, Len(prefix)) = prefix

clearCacheForCategory(p) ==
  /\ CanCall(p)
  /\ budget' = budget - 1
  /\ \E sysCategory \in Categories :
       LET prefix == sysCategory \o ":"
           keysToDelete == {key \in DOMAIN cache : startsWith(key, prefix)}
       IN /\ cache' = [key \in DOMAIN cache \ keysToDelete |-> cache[key]]
          /\ calls' = [calls EXCEPT ![p] =
               Return(NewCall("clearCacheForCategory", [sysCategory |-> sysCategory]),
                      Cardinality(keysToDelete))]
  /\ queries' = [queries EXCEPT ![p] = <<>>]
  /\ UNCHANGED <<service, config, store>>

\* String.prototype.split(separator, limit) for a one-character separator
RECURSIVE split(_, _, _)
split(s, separator, limit) ==
  LET hits == {i \in 1..Len(s) : SubSeq(s, i, i) = separator}
      first == CHOOSE i \in hits : \A j \in hits : i <= j
  IN IF limit = 0 THEN <<>>
     ELSE IF hits = {} THEN <<s>>
     ELSE <<SubSeq(s, 1, first - 1)>>
          \o split(SubSeq(s, first + 1, Len(s)), separator, limit - 1)

\* The iteration order of the Map is not modelled: keys is the set of the
\* keys, and the breakdown of a category is the bag of its token ids.
getCacheStats(p) ==
  /\ CanCall(p)
  /\ budget' = budget - 1
  /\ LET keys == DOMAIN cache
         parts == [key \in keys |-> split(key, ":", 2)]
         counted == {key \in keys :
                       /\ Len(parts[key]) = 2
                       /\ ~Falsy(parts[key][1])
                       /\ ~Falsy(parts[key][2])}
         categories == {parts[key][1] : key \in counted}
         of(category) == {key \in counted : parts[key][1] = category}
     IN calls' = [calls EXCEPT ![p] =
          Return(NewCall("getCacheStats", <<>>),
            [size |-> Cardinality(keys),
             keys |-> keys,
             categories |-> [c \in categories |-> Cardinality(of(c))],
             categoryBreakdown |->
               [c \in categories |->
                  [t \in {parts[key][2] : key \in of(c)} |->
                     Cardinality({key \in of(c) : parts[key][2] = t})]]])]
  /\ queries' = [queries EXCEPT ![p] = <<>>]
  /\ UNCHANGED <<service, cache, config, store>>

\* a variant that reports the entry and leaves it in the cache
removeFromCache_keeps(p) ==
  /\ CanCall(p)
  /\ budget' = budget - 1
  /\ \E tokenId \in TokenIdArgs, sysCategory \in Categories :
       calls' = [calls EXCEPT ![p] =
         Return(NewCall("removeFromCache",
                        [tokenId |-> tokenId, sysCategory |-> sysCategory]),
                MapHas(cache, getCacheKey(sysCategory, tokenId)))]
  /\ queries' = [queries EXCEPT ![p] = <<>>]
  /\ UNCHANGED <<service, cache, config, store>>

removeFromCache(p) ==
  /\ CanCall(p)
  /\ budget' = budget - 1
  /\ \E tokenId \in TokenIdArgs, sysCategory \in Categories :
       LET cacheKey == getCacheKey(sysCategory, tokenId)
           deleted == MapHas(cache, cacheKey)
       IN /\ cache' = [key \in DOMAIN cache \ {cacheKey} |-> cache[key]]
          /\ calls' = [calls EXCEPT ![p] =
               Return(NewCall("removeFromCache",
                              [tokenId |-> tokenId, sysCategory |-> sysCategory]),
                      deleted)]
  /\ queries' = [queries EXCEPT ![p] = <<>>]
  /\ UNCHANGED <<service, config, store>>

\* ------------------------------------------------------------------------
\* Specifications
\* ------------------------------------------------------------------------
InitService ==
  /\ client = null
  /\ cache = EmptyMap
  /\ isInitialized = FALSE
  /\ isServiceAvailable = FALSE
  /\ constructions = 0
  /\ failures = 0

\* the search was called without filter options
Unfiltered(call) == call.filters = NoFilters

\* the call was made with one of the categories of the enum
EnumCategory(call) == call.sysCategory \in Range(SystemCategory)

\* one advanced search on a fresh instance
InitAdv ==
  /\ InitService
  /\ config = ValidConfig
  /\ store \in Stores
  /\ calls = [p \in {1} |-> Idle]
  /\ queries = [p \in {1} |-> <<>>]
  /\ budget = 1

NextAdv ==
  \E p \in {1} :
    \/ getAllDataOf(p, TRUE, Range(SystemCategory), {NoFilters})
    \/ createClient(p)
    \/ performAdvancedSearch(p)
    \/ fetchRelatedEntities(p)
    \/ categorizeAndOrder(p)
    \/ paginate(p)

SpecAdv == InitAdv /\ [][NextAdv]_vars

\* operations called one after the other on one instance; the advanced
\* search, which never reads the cache, is run on the fresh instance
Init ==
  /\ InitService
  /\ config = ValidConfig
  /\ store \in ServiceStores
  /\ calls = [p \in {1} |-> Idle]
  /\ queries = [p \in {1} |-> <<>>]
  /\ budget = MaxCalls

Next ==
  \E p \in {1} :
    \/ getData(p) /\ EnumCategory(calls'[p])
    \/ getMultipleData(p) /\ EnumCategory(calls'[p])
    \/ getAllDataOf(p, FALSE, Range(SystemCategory), {NoFilters})
    \/ (budget = MaxCalls /\ getAllDataOf(p, TRUE, Range(SystemCategory), {NoFilters}))
    \/ createClient(p)
    \/ getDataBody(p)
    \/ getMultipleDataBody(p)
    \/ performStandardSearch(p)
    \/ performAdvancedSearch(p)
    \/ fetchRelatedEntities(p)
    \/ categorizeAndOrder(p)
    \/ paginate(p)

Spec == Init /\ [][Next]_vars

\* configurations: complete, privateKey missing, chainId not a number
Configs ==
  {ValidConfig,
   [ValidConfig EXCEPT !.privateKey = ""],
   [ValidConfig EXCEPT !.chainId = "hoodi"]}

\* two callers using one instance concurrently
InitConcurrent ==
  /\ InitService
  /\ config \in Configs
  /\ store = {Country613}
  /\ calls = [p \in {1, 2} |-> Idle]
  /\ queries = [p \in {1, 2} |-> <<>>]
  /\ budget = MaxCalls + 1

\* the callers ask for one token of one category, and for the first page
SameRequest(call) ==
  /\ "sysCategory" \in DOMAIN call => call.sysCategory = SystemCategory.REALITY_NFT_METADATA
  /\ "tokenId" \in DOMAIN call => call.tokenId = "613"
  /\ "tokenIds" \in DOMAIN call => call.tokenIds = <<"613">>
  /\ "skip" \in DOMAIN call => call.skip = 0 /\ call.limit = NoNumber
  /\ "filters" \in DOMAIN call => Unfiltered(call)

NextConcurrent ==
  \E p \in {1, 2} :
    \/ getData(p) /\ SameRequest(calls'[p])
    \/ getMultipleData(p) /\ SameRequest(calls'[p])
    \/ getAllData(p, FALSE) /\ SameRequest(calls'[p])
    \/ isAvailable(p)
    \/ createClient(p)
    \/ getDataBody(p)
    \/ getMultipleDataBody(p)
    \/ performStandardSearch(p) /\ SameRequest(calls'[p])
    \/ isAvailableBody(p)

SpecInit == InitConcurrent /\ [][NextConcurrent]_vars

\* reads and cache management called one after the other on one instance
InitCache ==
  /\ InitService
  /\ config = ValidConfig
  /\ store = {Country613, City277}
  /\ calls = [p \in {1} |-> Idle]
  /\ queries = [p \in {1} |-> <<>>]
  /\ budget = MaxCalls + 1

\* the callers use one category of the enum and one other string
CacheCategory(call) ==
  "sysCategory" \in DOMAIN call =>
    call.sysCategory \in {SystemCategory.REALITY_NFT_METADATA, "REALITY_NFT_METADATA:v2"}

NextCache ==
  \E p \in {1} :
    \/ getData(p) /\ CacheCategory(calls'[p])
    \/ getMultipleData(p) /\ CacheCategory(calls'[p])
    \/ createClient(p)
    \/ getDataBody(p)
    \/ getMultipleDataBody(p)
    \/ clearCache(p)
    \/ clearCacheForCategory(p) /\ CacheCategory(calls'[p])
    \/ getCacheStats(p)
    \/ removeFromCache(p) /\ CacheCategory(calls'[p])

SpecCache == InitCache /\ [][NextCache]_vars

\* the parameter objects handed to the query builder: the fields of
\* QueryParams and AdvancedQueryParams in one object, each builder reading
\* its own
QueryArgs ==
  [tokenIds : {<<>>, <<"613">>, <<"5", "613">>},
   sysCategory : {"", SystemCategory.REALITY_NFT_METADATA,
                  SystemCategory.REALITY_NFT_SPECIAL_VENUES},
   tokenTypes : {<<>>, <<EntityType.CITY>>, <<EntityType.CITY, EntityType.BUILDING>>},
   tokenCountry : {undefined, "PL"},
   tokenKeywords : {<<>>, <<"ab">>, <<"ab", "X1">>},
   tokenSettlement : {undefined, "Krakow"},
   excludeTokenIds : {<<>>, <<"613">>}]

\* new QueryBuilder(): the builder has no state, a query is a function of
\* its parameters
InitQuery ==
  /\ InitService
  /\ config = ValidConfig
  /\ store = {}
  /\ calls \in {[p \in {1} |-> [pc |-> "start", params |-> params]] :
                   params \in QueryArgs}
  /\ queries = [p \in {1} |-> <<>>]
  /\ budget = 1

\* queryBuilder.buildQuery(params)
callBuildQuery(p) ==
  /\ calls[p].pc = "start"
  /\ calls' = [calls EXCEPT ![p] =
       With(@, [pc |-> "done", op |-> "buildQuery", ret |-> buildQuery(@.params)])]
  /\ UNCHANGED <<service, cache, config, store, queries, budget>>

\* queryBuilder.buildAdvancedQuery(params)
callBuildAdvancedQuery(p) ==
  /\ calls[p].pc = "start"
  /\ calls' = [calls EXCEPT ![p] =
       With(@, [pc |-> "done", op |-> "buildAdvancedQuery",
                ret |-> buildAdvancedQuery(@.params)])]
  /\ UNCHANGED <<service, cache, config, store, queries, budget>>

NextQuery ==
  \E p \in {1} :
    \/ callBuildQuery(p)
    \/ callBuildAdvancedQuery(p)

SpecQuery == InitQuery /\ [][NextQuery]_vars

\* the helpers of the service and of the data processor, called on their own
Items == {"A", "B", "C"}

ItemLists == UNION {[1..n -> Items] : n \in 0..MaxItems}

\* requiredItem: omitted, an item, an item of no list, the empty string
RequiredItemArgs == {<<>>, <<"A">>, <<"D">>, <<"">>}

SliceArgs ==
  [fn : {"applySkipAndLimit"}, items : ItemLists, skip : SkipArgs, limit : LimitArgs,
   requiredItem : RequiredItemArgs]

\* an object whose `attributes` member is the given value
WithAttributes(attributes) ==
  [kind |-> "object", type |-> undefined, name |-> "O", attributes |-> attributes]

\* decoded JSON values: null, scalars, an array, objects with and without
\* the members extractTypeFromData reads
JsonValues ==
  {JsonNull, [kind |-> "number"], [kind |-> "string"], [kind |-> "boolean"],
   [kind |-> "array"],
   PlainJson("Plain"), NftJson("city", "Krakow"), VenueJson("building", "Hall"),
   WithAttributes([kind |-> "null", items |-> <<>>]),
   WithAttributes([kind |-> "object", items |-> <<>>]),
   WithAttributes([kind |-> "string", items |-> <<>>]),
   WithAttributes([kind |-> "array", items |-> <<>>]),
   WithAttributes([kind |-> "array",
                   items |-> <<[trait_type |-> "rarity", value |-> "1"]>>]),
   WithAttributes([kind |-> "array",
                   items |-> <<[trait_type |-> "type", value |-> "country"],
                               [trait_type |-> "type", value |-> "city"]>>])}

TypeArgs == [fn : {"extractTypeFromData"}, data : JsonValues, sysCategory : Categories]

InitPure ==
  /\ InitService
  /\ config = ValidConfig
  /\ store = {}
  /\ calls \in {[p \in {1} |-> With(args, [pc |-> "start"])] :
                   args \in SliceArgs \cup TypeArgs}
  /\ queries = [p \in {1} |-> <<>>]
  /\ budget = 1

\* this.applySkipAndLimit(items, skip, limit, requiredItem)
callApplySkipAndLimit(p) ==
  /\ calls[p].pc = "start"
  /\ calls[p].fn = "applySkipAndLimit"
  /\ calls' = [calls EXCEPT ![p] =
       With(@, [pc |-> "done",
                ret |-> applySkipAndLimit(@.items, @.skip, @.limit, @.requiredItem)])]
  /\ UNCHANGED <<service, cache, config, store, queries, budget>>

\* dataProcessor.extractTypeFromData(data, sysCategory)
callExtractTypeFromData(p) ==
  /\ calls[p].pc = "start"
  /\ calls[p].fn = "extractTypeFromData"
  /\ calls' = [calls EXCEPT ![p] =
       With(@, [pc |-> "done", ret |-> extractTypeFromData(@.data, @.sysCategory)])]
  /\ UNCHANGED <<service, cache, config, store, queries, budget>>

NextPure ==
  \E p \in {1} :
    \/ callApplySkipAndLimit(p)
    \/ callExtractTypeFromData(p)

SpecPure == InitPure /\ [][NextPure]_vars

\* one search with filter options on a fresh instance
InitFilters ==
  /\ InitService
  /\ config = ValidConfig
  /\ store = {Country613, City277}
  /\ calls = [p \in {1} |-> Idle]
  /\ queries = [p \in {1} |-> <<>>]
  /\ budget = 1

NextFilters ==
  \E p \in {1} :
    \/ getAllDataOf(p, FALSE, Range(SystemCategory), FilterArgs)
    \/ getAllDataOf(p, TRUE, Range(SystemCategory), FilterArgs)
    \/ createClient(p)
    \/ performStandardSearch(p)
    \/ performAdvancedSearch(p)
    \/ fetchRelatedEntities(p)
    \/ categorizeAndOrder(p)
    \/ paginate(p)

SpecFilters == InitFilters /\ [][NextFilters]_vars

\* ------------------------------------------------------------------------
\* The reads over stores whose entities fail in every way processEntity and
\* processEntityForMultiple give up on an entity
\* ------------------------------------------------------------------------
\* an entity without _sys_file_stem annotation
NoStem ==
  StoreEntity("k16", "0xAb", FALSE,
    Annotations("attr_", undefined, "country", undefined, "PL", Json("Nameless", "country")))

\* an entity of token 613 without _sys_data annotation
NoData ==
  StoreEntity("k17", "0xAb", FALSE,
    <<Annotation("_sys_file_stem", "613"), Annotation("attr_type", "country")>>)

\* an entity whose token id holds the separator of the cache keys
CountryV2 ==
  StoreEntity("k18", "0xAb", FALSE,
    Annotations("attr_", "v2:613", "country", undefined, "PL", Json("Polska", "country")))

\* an entity with two _sys_file_stem annotations
TwoStems ==
  StoreEntity("k19", "0xAb", FALSE,
    <<Annotation("_sys_file_stem", "613")>>
    \o Annotations("attr_", "614", "country", undefined, "PL", Json("Twice", "country")))

FailingStores ==
  { {Country613, NoStem, NoData},
    {Country613, Unreachable, CityNoOwner},
    {Country613, CountryOfOther, BuildingBadData},
    {Country613, CountryV2, TwoStems} }

\* the callers repeat one request, or read token 613 of another category
EntityRequest(call) ==
  \/ SameRequest(call)
  \/ /\ call.op = "getData"
     /\ call.tokenId = "613"
     /\ call.sysCategory = "REALITY_NFT_METADATA:v2"

InitEntities ==
  /\ InitService
  /\ config = ValidConfig
  /\ store \in FailingStores
  /\ calls = [p \in {1} |-> Idle]
  /\ queries = [p \in {1} |-> <<>>]
  /\ budget = MaxCalls

NextEntities ==
  \E p \in {1} :
    \/ getData(p) /\ EntityRequest(calls'[p])
    \/ getMultipleData(p) /\ SameRequest(calls'[p])
    \/ getAllData(p, FALSE) /\ SameRequest(calls'[p])
    \/ createClient(p)
    \/ getDataBody(p)
    \/ getMultipleDataBody(p)
    \/ performStandardSearch(p)

SpecEntities == InitEntities /\ [][NextEntities]_vars

\* ------------------------------------------------------------------------
\* Two callers whose awaited calls all settle: createClient and every store
\* call of an operation complete, with success or failure, so the
\* continuation of every operation that awaits is eventually run
\* ------------------------------------------------------------------------
InitLive ==
  /\ InitService
  /\ config \in Configs
  /\ store = {Country613}
  /\ calls = [p \in {1, 2} |-> Idle]
  /\ queries = [p \in {1, 2} |-> <<>>]
  /\ budget = MaxCalls

\* the continuation of the operation of p after the store call, or the
\* initialization, it was awaiting
Continue(p) ==
  \/ getDataBody(p)
  \/ getMultipleDataBody(p)
  \/ performStandardSearch(p)
  \/ isAvailableBody(p)
  \/ performAdvancedSearch(p)
  \/ fetchRelatedEntities(p)
  \/ categorizeAndOrder(p)
  \/ paginate(p)

\* the operation of p is waiting in one of these awaits: Continue(p) is
\* enabled exactly then, and it is the only step that changes calls[p] then
Awaiting(p) == calls[p].pc \in {"body", "related", "categorize", "page"}

Continued(p) == Awaiting(p) /\ calls'[p] # calls[p]

NextLive ==
  \E p \in {1, 2} :
    \/ getData(p) /\ SameRequest(calls'[p])
    \/ getMultipleData(p) /\ SameRequest(calls'[p])
    \/ getAllData(p, FALSE) /\ SameRequest(calls'[p])
    \/ getAllData(p, TRUE) /\ SameRequest(calls'[p])
    \/ isAvailable(p)
    \/ createClient(p)
    \/ getDataBody(p)
    \/ getMultipleDataBody(p)
    \/ performStandardSearch(p) /\ SameRequest(calls'[p])
    \/ isAvailableBody(p)
    \/ performAdvancedSearch(p)
    \/ fetchRelatedEntities(p)
    \/ categorizeAndOrder(p)
    \/ paginate(p) /\ SameRequest(calls'[p])

\* createClient settles, and so does every awaited store call: weak
\* fairness of createClient(p) and of Continue(p), the latter written out
\* with Awaiting(p) for ENABLED <<Continue(p)>>_vars and Continued(p) for
\* the step itself
SpecLive ==
  /\ InitLive
  /\ [][NextLive]_vars
  /\ \A p \in {1, 2} :
       /\ WF_vars(createClient(p))
       /\ ([]<>~Awaiting(p)) \/ ([]<><<Continued(p)>>_vars)

\* ------------------------------------------------------------------------
\* Properties of the advanced search (SpecAdv)
\* ------------------------------------------------------------------------
\* the advanced searches that have selected their anchor
Anchored == {p \in DOMAIN calls : "firstEntityInfo" \in DOMAIN calls[p]}

\* the advanced searches that have ordered their keys
Ordered == {p \in DOMAIN calls : "orderedKeys" \in DOMAIN calls[p]}

\* the advanced searches that returned a page
Paged == {p \in DOMAIN calls : "processedKeys" \in DOMAIN calls[p]}

AnchorDecoded(call) ==
  ~call.firstEntityData.isNull /\ ~Falsy(call.firstEntityInfo.tokenId)

\* position of key k in the list keys, 0 when absent
Position(keys, k) ==
  IF k \in Range(keys) THEN CHOOSE i \in DOMAIN keys : keys[i] = k ELSE 0

\* C1: with advancedSearch = true, for every skip and limit, a non-empty
\* result whose ordered key list holds the anchor returns the anchor's
\* tokenId (referenceId) in the page `data`.
C1_AnchorAlwaysInPage ==
  \A p \in Paged :
    (calls[p].ret.totalCount > 0 /\ calls[p].ret.referenceId \in Range(calls[p].orderedKeys))
      => Has(calls[p].ret.data, calls[p].ret.referenceId)

\* C2: when the anchor has no recognized type, getAllData does not throw,
\* sends no related query and returns exactly {data: {}, totalCount: 0}.
C2_UnknownTypeReturnsEmpty ==
  \A p \in Anchored :
    (calls[p].pc = "done" /\ calls[p].firstEntityInfo.attrType \notin EntityTypes)
      => /\ calls[p].raised = ""
         /\ Len(queries[p]) = 1
         /\ calls[p].ret = EmptyDefault

\* the first occurrences of the elements of keys, in order
RECURSIVE FirstOccurrences(_)
FirstOccurrences(keys) ==
  IF Len(keys) = 0 THEN <<>>
  ELSE LET front == FirstOccurrences(SubSeq(keys, 1, Len(keys) - 1))
       IN IF keys[Len(keys)] \in Range(front) THEN front
          ELSE Append(front, keys[Len(keys)])

Rotation(anchorType) ==
  CASE anchorType = "building" -> <<"building", "city", "country">>
    [] anchorType = "country" -> <<"country", "city", "building">>
    [] anchorType = "city" -> <<"city", "building", "country">>

\* C7: the ordered key list is the anchor's tokenId (if its own decode
\* succeeded) followed by the bucket contents concatenated in the rotation
\* fixed by the anchor type, each key at its first position.
C7_OrderFollowsRotation ==
  \A p \in Ordered :
    calls[p].firstEntityInfo.attrType \in EntityTypes =>
      LET call == calls[p]
          rotation == Rotation(call.firstEntityInfo.attrType)
          bucket(i) == ObjectKeys(call.categorizedResults[rotation[i]])
          anchor == IF AnchorDecoded(call) THEN <<call.firstEntityInfo.tokenId>> ELSE <<>>
      IN call.orderedKeys = FirstOccurrences(anchor \o bucket(1) \o bucket(2) \o bucket(3))

\* an anchor of type city with a building and a country behind it
C7_Witness ==
  \E p \in Ordered :
    /\ calls[p].firstEntityInfo.attrType = "city"
    /\ AnchorDecoded(calls[p])
    /\ Len(calls[p].categorizedResults["building"].keys) > 0
    /\ Len(calls[p].categorizedResults["country"].keys) > 0
    /\ Len(calls[p].orderedKeys) = 3

\* the type extractTypeFromData gives the payload of a processed entity
PayloadType(result, sysCategory) == extractTypeFromData(result.data, sysCategory).value

\* C8: within each type bucket, keys appear in the ordered key list in the
\* order in which the related query returned their entities, for every
\* tokenId string.
C8_BucketKeepsStoreOrder ==
  \A p \in Ordered :
    calls[p].firstEntityInfo.attrType \in EntityTypes =>
      LET call == calls[p]
          results == call.entityResults
          once(i) == /\ ~results[i].isNull
                     /\ results[i].tokenId # call.firstEntityInfo.tokenId
                     /\ \A j \in DOMAIN results :
                          (j # i /\ ~results[j].isNull) => results[j].tokenId # results[i].tokenId
      IN \A i, j \in DOMAIN results :
           (/\ i < j /\ once(i) /\ once(j)
            /\ PayloadType(results[i], call.sysCategory) \in EntityTypes
            /\ PayloadType(results[i], call.sysCategory) = PayloadType(results[j], call.sysCategory))
             => Position(call.orderedKeys, results[i].tokenId)
                  < Position(call.orderedKeys, results[j].tokenId)

\* C9: the ordered key list never holds a tokenId twice, and holds every
\* key of the anchor and of the buckets.
C9_NoDuplicateKeys ==
  \A p \in Ordered :
    LET call == calls[p]
        keys == call.orderedKeys
    IN /\ \A i, j \in DOMAIN keys : keys[i] = keys[j] => i = j
       /\ call.firstEntityInfo.attrType \in EntityTypes =>
            Range(keys) =
              (IF AnchorDecoded(call) THEN {call.firstEntityInfo.tokenId} ELSE {})
              \cup UNION {Range(call.categorizedResults[t].keys) : t \in EntityTypes}

\* a related entity carries the anchor's tokenId, or one tokenId sits in two buckets
C9_Witness ==
  \E p \in Ordered :
    LET call == calls[p]
    IN /\ call.firstEntityInfo.attrType \in EntityTypes
       /\ Len(call.orderedKeys) > 0
       /\ \/ /\ AnchorDecoded(call)
             /\ \E t \in EntityTypes :
                  Has(call.categorizedResults[t], call.firstEntityInfo.tokenId)
          \/ \E t, u \in EntityTypes :
               /\ t # u
               /\ Range(call.categorizedResults[t].keys)
                    \cap Range(call.categorizedResults[u].keys) # {}

\* the first index of list whose attrType is t, 0 when there is none
FirstOfType(list, t) ==
  IF \E i \in DOMAIN list : list[i].attrType = t
  THEN CHOOSE i \in DOMAIN list :
         list[i].attrType = t /\ \A j \in 1..(i - 1) : list[j].attrType # t
  ELSE 0

\* C10: the anchor is the first entity of type country; if there is none,
\* the first of type city; if none, the first of type building; if none of
\* the three occurs, the first entity of the list.
C10_AnchorSelection ==
  \A p \in Anchored :
    LET list == calls[p].entityInfoList
        expected ==
          IF FirstOfType(list, "country") > 0 THEN FirstOfType(list, "country")
          ELSE IF FirstOfType(list, "city") > 0 THEN FirstOfType(list, "city")
          ELSE IF FirstOfType(list, "building") > 0 THEN FirstOfType(list, "building")
          ELSE 1
    IN calls[p].firstEntityInfo = list[expected]

\* a building comes first, a different entity of a higher priority is chosen
C10_Witness ==
  \E p \in Anchored :
    LET list == calls[p].entityInfoList
    IN /\ Len(list) >= 2
       /\ list[1].attrType = "building"
       /\ calls[p].firstEntityInfo.attrType \in {"city", "country"}
       /\ calls[p].firstEntityInfo # list[1]

\* ------------------------------------------------------------------------
\* Properties of the service (Spec)
\* ------------------------------------------------------------------------
\* the store entity with key k
EntityOf(k) == CHOOSE e \in store : e.entityKey = k

\* the entities of a list whose metadata fetch succeeds
Reachable(entities) ==
  LET ok(k) == ~EntityOf(k).metaFails IN SelectSeq(entities, ok)

\* the batch operations that got an answer to their query
Answered ==
  {p \in DOMAIN calls :
     /\ calls[p].pc = "done"
     /\ "queryFailed" \in DOMAIN calls[p]
     /\ ~calls[p].queryFailed}

\* the answered getMultipleData and standard getAllData operations
Batches ==
  {p \in Answered :
     \/ calls[p].op = "getMultipleData"
     \/ (calls[p].op = "getAllData" /\ ~calls[p].advancedSearch)}

\* the entities a finished batch operation processed one by one
Processed(call) ==
  IF call.op = "getMultipleData" THEN call.entities ELSE call.processedEntities

\* the tokenId -> data object a finished batch operation returned
DataOf(call) ==
  IF call.op = "getMultipleData" THEN call.ret ELSE call.ret.data

\* C3: a failure confined to one entity (metadata fetch, ownership, decode,
\* type extraction) only omits that entity.  getMultipleData and the
\* standard getAllData return every entity that processes; the advanced
\* getAllData, once its queries are answered, returns a non-empty result
\* whenever the anchor chosen among the entities whose metadata can be
\* fetched processes.
C3_EntityFailureOnlyOmitsEntity ==
  \A p \in Answered :
    /\ p \in Batches
       => \A i \in DOMAIN Processed(calls[p]) :
            LET result == processEntityForMultiple(Processed(calls[p])[i],
                                                   calls[p].sysCategory)
            IN ~result.isNull => Has(DataOf(calls[p]), result.tokenId)
    /\ (/\ calls[p].op = "getAllData"
        /\ calls[p].advancedSearch
        /\ ("relatedFailed" \in DOMAIN calls[p] => ~calls[p].relatedFailed)
        /\ Reachable(calls[p].initialEntities) # <<>>)
       => LET info == extractEntityInformation(Reachable(calls[p].initialEntities),
                        calls[p].sysCategory,
                        MetadataFetches(Reachable(calls[p].initialEntities))).value
              anchor == info[selectPriorityEntity(info)]
          IN (/\ ~Falsy(anchor.tokenId)
              /\ ~processEntityForMultiple(anchor.entity, calls[p].sysCategory).isNull)
             => calls[p].ret.totalCount >= 1

\* the entity is owned by the configured owner, letter case aside
OwnedBy(e) ==
  /\ e.owner # undefined
  /\ toLowerCase(e.owner) = toLowerCase(config.targetOwner)

\* the decoded payload of a store entity
PayloadOf(e) ==
  LastAnnotation(e.stringAnnotations, SYSTEM_ANNOTATION_KEYS.DATA, EmptyString).json

OwnedPayloads == {PayloadOf(e) : e \in {x \in store : OwnedBy(x)}}

\* the entity has a token id and a payload that decodes
Deliverable(e) ==
  /\ ~e.metaFails
  /\ ~Falsy(LastAnnotation(e.stringAnnotations, SYSTEM_ANNOTATION_KEYS.FILE_STEM, undefined))
  /\ ~decodeAndDecompressData(
        LastAnnotation(e.stringAnnotations, SYSTEM_ANNOTATION_KEYS.DATA, EmptyString),
        LastAnnotation(e.stringAnnotations, SYSTEM_ANNOTATION_KEYS.COMPRESSION_METHOD,
                       null)).throws

\* the values a finished operation returned
ReturnedValues(call) ==
  IF call.raised # "" \/ call.op = "isAvailable" THEN {}
  ELSE IF call.op = "getData" THEN {call.ret} \ {JsonNull}
  ELSE IF call.op = "getMultipleData" THEN Range(call.ret.vals)
  ELSE Range(call.ret.data.vals)

\* C6: every value returned by getData, getMultipleData or getAllData, and
\* every cached value, is the payload of an entity whose owner equals
\* targetOwner after lower-casing both; an entity without owner contributes
\* nothing, and an owner differing only in letter case is accepted.
C6_OwnershipFilter ==
  /\ \A k \in DOMAIN cache : cache[k] \in OwnedPayloads
  /\ \A p \in DOMAIN calls :
       calls[p].pc = "done" => ReturnedValues(calls[p]) \subseteq OwnedPayloads
  /\ \A p \in Batches :
       \A i \in DOMAIN Processed(calls[p]) :
         LET e == EntityOf(Processed(calls[p])[i])
         IN (OwnedBy(e) /\ Deliverable(e))
            => Has(DataOf(calls[p]),
                   LastAnnotation(e.stringAnnotations,
                                  SYSTEM_ANNOTATION_KEYS.FILE_STEM, undefined))

\* a batch whose entities include one without owner and one whose owner is
\* spelled in another letter case; the value of the latter is returned
C6_Witness ==
  \E p \in Answered :
    /\ calls[p].op = "getMultipleData"
    /\ \E i \in DOMAIN calls[p].entities :
         EntityOf(calls[p].entities[i]).owner = undefined
    /\ \E i \in DOMAIN calls[p].entities :
         LET e == EntityOf(calls[p].entities[i])
         IN /\ OwnedBy(e)
            /\ e.owner # config.targetOwner
            /\ PayloadOf(e) \in Range(calls[p].ret.vals)

\* ------------------------------------------------------------------------
\* Properties of initialization (SpecInit)
\* ------------------------------------------------------------------------
\* C4: Unavailable is terminal.  Once an initialization attempt has failed
\* the service is not available in any later state, and no step starts
\* another client construction.
C4_UnavailableIsTerminal ==
  [][failures > 0 => (~isServiceAvailable' /\ constructions' = constructions)]_vars

\* C5: an initialization failure is raised only to the caller whose
\* operation triggered the failing attempt; an operation called after a
\* failure returns normally and sends no query.
C5_LaterCallsShortCircuit ==
  \A p \in DOMAIN calls :
    calls[p].pc # "idle" =>
      /\ calls[p].raised # "" => calls[p].failuresBefore < failures
      /\ calls[p].failuresBefore > 0 => (calls[p].raised = "" /\ queries[p] = <<>>)

\* ------------------------------------------------------------------------
\* Properties of the cached reads (Spec)
\* ------------------------------------------------------------------------
\* the calls that returned because client.queryEntities rejected
QueryRejected ==
  {p \in DOMAIN calls :
     /\ calls[p].pc = "done"
     /\ \/ ("queryFailed" \in DOMAIN calls[p] /\ calls[p].queryFailed)
        \/ ("relatedFailed" \in DOMAIN calls[p] /\ calls[p].relatedFailed)}

\* the empty value of an operation
DefaultOf(call) ==
  IF call.op = "getData" THEN JsonNull
  ELSE IF call.op = "getMultipleData" THEN EmptyObject
  ELSE EmptyDefault

\* the requested ids that have a cache entry
CachedIds(call) ==
  {t \in Range(call.tokenIds) : getCacheKey(call.sysCategory, t) \in DOMAIN cache}

\* C11 (as stated): when the store query throws, the exception is never
\* propagated: getData returns null, getMultipleData returns {} and
\* getAllData returns {data: {}, totalCount: 0}.
C11_QueryFailureReturnsDefault ==
  \A p \in QueryRejected :
    calls[p].raised = "" /\ calls[p].ret = DefaultOf(calls[p])

\* C11 (amended): when the store query throws, the exception is never
\* propagated: getData returns null, getAllData returns {data: {},
\* totalCount: 0}, and getMultipleData returns the requested ids that were
\* already cached with their cached values, which is {} when none was.
C11_QueryFailureReturnsCachedPart ==
  \A p \in QueryRejected :
    /\ calls[p].raised = ""
    /\ IF calls[p].op = "getMultipleData"
       THEN /\ Range(calls[p].ret.keys) = CachedIds(calls[p])
            /\ \A t \in CachedIds(calls[p]) :
                 calls[p].ret.vals[t] = cache[getCacheKey(calls[p].sysCategory, t)]
       ELSE calls[p].ret = DefaultOf(calls[p])

\* a rejected getMultipleData that had one requested id cached and one not
C11_Witness ==
  \E p \in QueryRejected :
    /\ calls[p].op = "getMultipleData"
    /\ CachedIds(calls[p]) # {}
    /\ CachedIds(calls[p]) # Range(calls[p].tokenIds)

\* ------------------------------------------------------------------------
\* Properties of the cache (SpecCache)
\* ------------------------------------------------------------------------
\* the (cache key, payload) pairs a finished read decoded
Decoded(call) ==
  IF "entities" \notin DOMAIN call THEN {}
  ELSE LET list == IF call.op = "getAllData" THEN call.processedEntities
                   ELSE call.entities
           results ==
             [i \in DOMAIN list |->
                IF call.op = "getData"
                THEN processEntity(list[i], call.tokenId, call.sysCategory)
                ELSE processEntityForMultiple(list[i], call.sysCategory)]
       IN {<<getCacheKey(call.sysCategory, results[i].tokenId), results[i].data>> :
             i \in {j \in DOMAIN results : ~results[j].isNull}}

\* the pairs decoded by the read that finishes in this step
DecodedInStep ==
  UNION {Decoded(calls'[p]) :
           p \in {q \in DOMAIN calls : calls[q].pc = "body" /\ calls'[q].pc = "done"}}

\* this step is a call of clearCache, clearCacheForCategory or removeFromCache
Invalidation ==
  /\ budget' < budget
  /\ \E p \in DOMAIN calls :
       /\ calls'[p].pc = "done"
       /\ calls'[p].op \in {"clearCache", "clearCacheForCategory", "removeFromCache"}

\* C12: the value of a cache entry is the most recently successfully
\* decoded payload of its (category, tokenId): a step that decodes payloads
\* for a key leaves one of them in the entry, any other step that keeps the
\* entry keeps its value, and an entry disappears only in a step of
\* clearCache, clearCacheForCategory or removeFromCache.
C12_CacheHoldsLastDecoded ==
  [][/\ DOMAIN cache \ DOMAIN cache' # {} => Invalidation
     /\ \A k \in DOMAIN cache' :
          IF \E w \in DecodedInStep : w[1] = k
          THEN <<k, cache'[k]>> \in DecodedInStep
          ELSE k \in DOMAIN cache /\ cache'[k] = cache[k]]_vars

\* a getMultipleData decoded a payload for an id that already had an entry,
\* and the entry now holds a payload it decoded
C12_Witness ==
  \E p \in DOMAIN calls :
    /\ calls[p].pc = "done"
    /\ calls[p].op = "getMultipleData"
    /\ "entities" \in DOMAIN calls[p]
    /\ \E t \in Range(calls[p].tokenIds) \ Range(calls[p].uncached) :
         LET k == getCacheKey(calls[p].sysCategory, t)
         IN /\ \E w \in Decoded(calls[p]) : w[1] = k
            /\ k \in DOMAIN cache
            /\ <<k, cache[k]>> \in Decoded(calls[p])

\* ------------------------------------------------------------------------
\* Properties of the reads (Spec)
\* ------------------------------------------------------------------------
\* C13: on a cache miss whose query returns one or more entities, getData
\* returns the decoded payload of the first returned entity that passes the
\* ownership filter and decodes, and null when no returned entity does.
C13_FirstPassingEntity ==
  \A p \in Answered :
    (calls[p].op = "getData" /\ Len(calls[p].entities) > 0)
    => LET results ==
             [i \in DOMAIN calls[p].entities |->
                processEntity(calls[p].entities[i], calls[p].tokenId,
                              calls[p].sysCategory)]
           passing == {i \in DOMAIN results : ~results[i].isNull}
       IN calls[p].ret =
            IF passing = {} THEN JsonNull
            ELSE results[CHOOSE i \in passing : \A j \in passing : i <= j].data

\* the requested ids of a getMultipleData without a cache entry, in order
UncachedIds(call) ==
  LET missing(t) == getCacheKey(call.sysCategory, t) \notin DOMAIN cache
  IN SelectSeq(call.tokenIds, missing)

\* C14: cached ids are never re-fetched.  A getData whose key is cached
\* returns the cached value and sends no query.  A getMultipleData sends no
\* query when every requested id is cached; otherwise (the client exists)
\* it sends exactly one query, the one for exactly the uncached ids; and
\* every cached id is in its result, with the cached value unless the
\* answer held a payload for that id too.
C14_CachedIdsNotRefetched ==
  [][\A p \in DOMAIN calls :
       /\ (/\ budget' < budget
           /\ calls'[p].pc # "idle"
           /\ calls'[p].op = "getData"
           /\ getCacheKey(calls'[p].sysCategory, calls'[p].tokenId) \in DOMAIN cache)
          => /\ calls'[p].pc = "done"
             /\ queries'[p] = <<>>
             /\ calls'[p].ret =
                  cache[getCacheKey(calls'[p].sysCategory, calls'[p].tokenId)]
       /\ (/\ calls[p].pc = "body"
           /\ calls'[p].pc = "done"
           /\ calls[p].op = "getMultipleData")
          => /\ queries'[p] =
                  IF UncachedIds(calls[p]) = <<>> \/ client = null THEN <<>>
                  ELSE <<buildQuery(QueryParams(UncachedIds(calls[p]),
                           calls[p].sysCategory, <<>>, undefined, <<>>, undefined))>>
             /\ \A t \in CachedIds(calls[p]) :
                  LET k == getCacheKey(calls[p].sysCategory, t)
                  IN /\ Has(calls'[p].ret, t)
                     /\ \/ calls'[p].ret.vals[t] = cache[k]
                        \/ <<k, calls'[p].ret.vals[t]>> \in Decoded(calls'[p])]_vars

\* a getMultipleData with one requested id cached and one not, answered by
\* the store, that sent one query and returned both ids
C14_Witness ==
  \E p \in Answered :
    /\ calls[p].op = "getMultipleData"
    /\ Len(calls[p].tokenIds) = 2
    /\ Len(calls[p].uncached) = 1
    /\ Len(queries[p]) = 1
    /\ Range(calls[p].tokenIds) \subseteq Range(calls[p].ret.keys)

\* the answered getAllData operations of the standard path
StandardSearches ==
  {p \in Answered : calls[p].op = "getAllData" /\ ~calls[p].advancedSearch}

\* the positions of the returned entities selected by skip and by the cap
\* (a number to end the window at skip + cap, or none)
Window(call, cap) ==
  {i \in DOMAIN call.entities :
     /\ i > call.skip
     /\ cap # NoNumber => i <= call.skip + cap[1]}

\* the _sys_file_stem of the store entity with key k
TokenIdOf(k) ==
  LastAnnotation(EntityOf(k).stringAnnotations, SYSTEM_ANNOTATION_KEYS.FILE_STEM,
                 undefined)

\* totalCount is the number of returned entities, the processed entities
\* are those of the window, data has at most cap entries, and every key of
\* data is the tokenId of an entity of the window
StandardResult(call, cap) ==
  /\ call.ret.totalCount = Len(call.entities)
  /\ Len(call.processedEntities) = Cardinality(Window(call, cap))
  /\ \A j \in DOMAIN call.processedEntities :
       call.processedEntities[j] = call.entities[call.skip + j]
  /\ cap # NoNumber => Len(call.ret.data.keys) <= cap[1]
  /\ \A t \in Range(call.ret.data.keys) :
       \E i \in Window(call, cap) : TokenIdOf(call.entities[i]) = t

IsPositive(limit) == limit # NoNumber /\ limit[1] > 0

\* C15 (as stated): on the standard path totalCount is the number N of
\* entities the store returned, whatever skip, limit, ownership and decoding
\* do; skip and limit select a window of the unfiltered list; data has at
\* most `limit` entries, and every key of data is the tokenId of an entity
\* of the window.
C15_StandardWindow ==
  \A p \in StandardSearches : StandardResult(calls[p], calls[p].limit)

\* C15 (amended): the same, where a limit caps the window and data only
\* when it is a positive number; limit 0 selects everything after skip,
\* like an absent limit.
C15_StandardWindowPositiveLimit ==
  \A p \in StandardSearches :
    StandardResult(calls[p],
                   IF IsPositive(calls[p].limit) THEN calls[p].limit ELSE NoNumber)

\* a page that starts after the first entity, has a positive limit, and
\* has an entry, but fewer entries than the store returned entities
C15_Witness ==
  \E p \in StandardSearches :
    /\ calls[p].skip > 0
    /\ IsPositive(calls[p].limit)
    /\ Len(calls[p].entities) >= calls[p].skip + calls[p].limit[1]
    /\ Len(calls[p].ret.data.keys) > 0
    /\ calls[p].ret.totalCount > Len(calls[p].ret.data.keys)

Calls(p, op) ==
  /\ budget' < budget
  /\ calls'[p].pc # "idle"
  /\ calls'[p].op = op

\* the cache key of the pair a call was made for
KeyOf(call) == getCacheKey(call.sysCategory, call.tokenId)

\* C17: once a value is cached for (c, k), getData(k, c) returns it;
\* removeFromCache(k, c) returns true exactly when the entry exists, so
\* true once and false when called again at once; after it the entry is
\* absent and every other entry is unchanged.
C17_CacheIdempotence ==
  [][\A p \in DOMAIN calls :
       /\ (Calls(p, "getData") /\ KeyOf(calls'[p]) \in DOMAIN cache)
          => (calls'[p].pc = "done" /\ calls'[p].ret = cache[KeyOf(calls'[p])])
       /\ Calls(p, "removeFromCache")
          => /\ calls'[p].pc = "done"
             /\ calls'[p].ret = (KeyOf(calls'[p]) \in DOMAIN cache)
             /\ DOMAIN cache' = DOMAIN cache \ {KeyOf(calls'[p])}
             /\ \A k \in DOMAIN cache' : cache'[k] = cache[k]
             /\ (/\ calls[p].pc = "done"
                 /\ calls[p].op = "removeFromCache"
                 /\ KeyOf(calls[p]) = KeyOf(calls'[p]))
                => calls'[p].ret = FALSE]_vars

\* removeFromCache returned true and left another entry in the cache
C17_Witness ==
  \E p \in DOMAIN calls :
    /\ calls[p].pc = "done"
    /\ calls[p].op = "removeFromCache"
    /\ calls[p].ret = TRUE
    /\ KeyOf(calls[p]) \notin DOMAIN cache
    /\ DOMAIN cache # {}

\* the token ids an entry can be cached for: an argument of getData, or
\* the _sys_file_stem of a store entity
TokenIds == TokenIdArgs \cup {TokenIdOf(e.entityKey) : e \in store}

\* C18: clearCacheForCategory(c) removes every entry cached under the
\* category c, returns the number of entries it removed, and leaves the
\* entries of every other category unchanged, for every category string.
C18_ClearsOnlyItsCategory ==
  [][\A p \in DOMAIN calls :
       Calls(p, "clearCacheForCategory")
       => LET c == calls'[p].sysCategory
          IN /\ \A t \in TokenIds : getCacheKey(c, t) \notin DOMAIN cache'
             /\ calls'[p].ret = Cardinality(DOMAIN cache \ DOMAIN cache')
             /\ \A other \in Categories \ {c}, t \in TokenIds :
                  LET k == getCacheKey(other, t)
                  IN k \in DOMAIN cache
                     => (k \in DOMAIN cache' /\ cache'[k] = cache[k])]_vars

\* the position of the first ':' of a cache key
FirstColon(key) ==
  LET colons == {i \in 1..Len(key) : SubSeq(key, i, i) = ":"}
  IN CHOOSE i \in colons : \A j \in colons : i <= j

\* the text of a cache key before its first ':'
CategoryOfKey(key) == SubSeq(key, 1, FirstColon(key) - 1)

\* the text of a cache key after its first ':'
TokenIdOfKey(key) == SubSeq(key, FirstColon(key) + 1, Len(key))

\* the sum of the values of a function to the naturals
RECURSIVE SumOf(_)
SumOf(f) ==
  IF DOMAIN f = {} THEN 0
  ELSE LET x == CHOOSE y \in DOMAIN f : TRUE
       IN f[x] + SumOf([y \in DOMAIN f \ {x} |-> f[y]])

\* C19: getCacheStats reports size = the number of cache entries and keys =
\* all cache keys; the category of a key is the text before its first ':'
\* and its token id everything after it; categories[c] counts and
\* categoryBreakdown[c] lists exactly the entries of category c, so the
\* counts add up to size.
C19_CacheStats ==
  \A p \in DOMAIN calls :
    (calls[p].pc = "done" /\ calls[p].op = "getCacheStats")
    => LET stats == calls[p].ret
           keys == DOMAIN cache
           of(c) == {key \in keys : CategoryOfKey(key) = c}
       IN /\ stats.size = Cardinality(keys)
          /\ stats.keys = keys
          /\ DOMAIN stats.categories = {CategoryOfKey(key) : key \in keys}
          /\ DOMAIN stats.categoryBreakdown = DOMAIN stats.categories
          /\ \A c \in DOMAIN stats.categories :
               /\ stats.categories[c] = Cardinality(of(c))
               /\ DOMAIN stats.categoryBreakdown[c] = {TokenIdOfKey(key) : key \in of(c)}
               /\ \A t \in DOMAIN stats.categoryBreakdown[c] :
                    stats.categoryBreakdown[c][t] =
                      Cardinality({key \in of(c) : TokenIdOfKey(key) = t})
          /\ SumOf(stats.categories) = stats.size

\* ------------------------------------------------------------------------
\* Properties of the query builder (SpecQuery)
\* ------------------------------------------------------------------------
\* the finished calls of the query builder
Built ==
  {p \in DOMAIN calls :
     calls[p].pc = "done" /\ calls[p].op \in {"buildQuery", "buildAdvancedQuery"}}

\* the text sub occurs in the text s
Contains(s, sub) ==
  \E i \in 1..(Len(s) - Len(sub) + 1) : SubSeq(s, i, i + Len(sub) - 1) = sub

\* C20: every filter expression produced by buildQuery or
\* buildAdvancedQuery begins with the conjunction of _sys_version >= 1,
\* (_sys_status = "both" or _sys_status = "prod") and _sys_file_type =
\* "json", and contains _sys_category = sysCategory whenever sysCategory is
\* not empty.
C20_QueryAnchor ==
  \A p \in Built :
    /\ startsWith(calls[p].ret,
         "_sys_version >= 1 && (_sys_status = \"both\" || _sys_status = \"prod\")"
         \o " && _sys_file_type = \"json\"")
    /\ calls[p].params.sysCategory # ""
       => Contains(calls[p].ret,
            " && _sys_category = \"" \o calls[p].params.sysCategory \o "\"")

\* an advanced query for a category with the country-or-building group
\* behind the anchor and the category clause
C20_Witness ==
  \E p \in Built :
    /\ calls[p].op = "buildAdvancedQuery"
    /\ calls[p].params.sysCategory = SystemCategory.REALITY_NFT_SPECIAL_VENUES
    /\ calls[p].params.tokenCountry = "PL"
    /\ calls[p].params.tokenSettlement = "Krakow"
    /\ Contains(calls[p].ret, "_sys_category = \"REALITY_NFT_SPECIAL_VENUES\"")
    /\ Contains(calls[p].ret, "settlement = \"Krakow\"")

\* the clauses joined by " || ", first clause first
RECURSIVE Alternatives(_)
Alternatives(clauses) ==
  IF Len(clauses) = 1 THEN clauses[1]
  ELSE Alternatives(SubSeq(clauses, 1, Len(clauses) - 1))
       \o " || " \o clauses[Len(clauses)]

\* what a filter with the given per-element clauses adds to the expression:
\* nothing, one plain clause, or one parenthesized group
FilterText(clauses) ==
  IF Len(clauses) = 0 THEN ""
  ELSE IF Len(clauses) = 1 THEN " && " \o clauses[1]
  ELSE " && (" \o Alternatives(clauses) \o ")"

\* the text of buildQuery's expression before its array-valued filters
AnchorText(sysCategory) ==
  "_sys_version >= 1 && (_sys_status = \"both\" || _sys_status = \"prod\")"
  \o " && _sys_file_type = \"json\""
  \o (IF sysCategory = "" THEN "" ELSE " && _sys_category = \"" \o sysCategory \o "\"")

\* key = "value"
Equality(key, value) == key \o " = \"" \o value \o "\""

\* the category-mapped attribute key named in the specification
AttrKey(sysCategory, name) ==
  IF sysCategory = "REALITY_NFT_SPECIAL_VENUES" THEN name ELSE "attr_" \o name

\* the clause of a scalar filter, absent when the filter is
ScalarText(key, value) ==
  IF value = undefined THEN "" ELSE " && " \o Equality(key, value)

\* C21: each array-valued filter of buildQuery (tokenIds, tokenTypes,
\* tokenKeywords) adds nothing when it is empty, one plain clause when it
\* has one element, and one parenthesized group of its per-element clauses
\* joined by || in input order when it has more; the expression is the
\* anchor followed by these contributions and the scalar clauses.
C21_ArrayFilters ==
  \A p \in Built :
    calls[p].op = "buildQuery"
    => LET q == calls[p].params
           ids == [i \in DOMAIN q.tokenIds |-> Equality("_sys_file_stem", q.tokenIds[i])]
           types == [i \in DOMAIN q.tokenTypes |->
                       Equality(AttrKey(q.sysCategory, "type"), q.tokenTypes[i])]
           keywords == [i \in DOMAIN q.tokenKeywords |->
                          "name ~ \"*" \o createKeywordPattern(q.tokenKeywords[i]) \o "*\""]
       IN calls[p].ret =
            AnchorText(q.sysCategory)
            \o FilterText(ids) \o FilterText(types)
            \o ScalarText(AttrKey(q.sysCategory, "country_name"), q.tokenCountry)
            \o FilterText(keywords)
            \o ScalarText(AttrKey(q.sysCategory, "settlement"), q.tokenSettlement)

\* a query with two ids, one type and no keyword
C21_Witness ==
  \E p \in Built :
    /\ calls[p].op = "buildQuery"
    /\ Len(calls[p].params.tokenIds) = 2
    /\ Len(calls[p].params.tokenTypes) = 1
    /\ Len(calls[p].params.tokenKeywords) = 0
    /\ Contains(calls[p].ret, " && (_sys_file_stem = \"5\" || _sys_file_stem = \"613\")")
    /\ Contains(calls[p].ret, " && attr_type = \"city\"")
    /\ ~Contains(calls[p].ret, "name ~")

\* C22: for every category and every base key of {type, settlement,
\* country_name} the attribute key is attr_<name>, or the bare <name> for
\* REALITY_NFT_SPECIAL_VENUES; the builder's mapping and the service's
\* mapping give the same key, so the clauses the builder emits for type,
\* country and settlement filter on the keys the service reads.
C22_AttributeKeyMapping ==
  \A p \in Built :
    LET q == calls[p].params
        c == q.sysCategory
    IN /\ \A name \in {"type", "settlement", "country_name"} :
            /\ QueryBuilder_getAttributeKey(c, name) = AttrKey(c, name)
            /\ getAttributeKey(c, name) = AttrKey(c, name)
       /\ calls[p].op = "buildQuery"
          => /\ q.tokenTypes # <<>>
                => Contains(calls[p].ret,
                     Equality(getAttributeKey(c, ATTRIBUTE_KEYS.TYPE), q.tokenTypes[1]))
             /\ q.tokenCountry # undefined
                => Contains(calls[p].ret,
                     " && " \o Equality(getAttributeKey(c, ATTRIBUTE_KEYS.COUNTRY_NAME),
                                        q.tokenCountry))
             /\ q.tokenSettlement # undefined
                => Contains(calls[p].ret,
                     " && " \o Equality(getAttributeKey(c, ATTRIBUTE_KEYS.SETTLEMENT),
                                        q.tokenSettlement))

\* a query for the special venues filters on the bare keys
C22_Witness ==
  \E p \in Built :
    /\ calls[p].op = "buildQuery"
    /\ calls[p].params.sysCategory = SystemCategory.REALITY_NFT_SPECIAL_VENUES
    /\ Contains(calls[p].ret, " && country_name = \"PL\"")
    /\ Contains(calls[p].ret, " && settlement = \"Krakow\"")
    /\ Contains(calls[p].ret, " && type = \"city\"")
    /\ ~Contains(calls[p].ret, "attr_")

\* the per-element clauses of a type filter and of a keyword filter
TypeClauses(sysCategory, tokenTypes) ==
  [i \in DOMAIN tokenTypes |-> Equality(AttrKey(sysCategory, "type"), tokenTypes[i])]

KeywordClauses(tokenKeywords) ==
  [i \in DOMAIN tokenKeywords |->
     "name ~ \"*" \o createKeywordPattern(tokenKeywords[i]) \o "*\""]

\* C23: with both tokenCountry and tokenSettlement supplied,
\* buildAdvancedQuery yields the buildQuery expression of sysCategory,
\* tokenTypes and tokenKeywords, without country and settlement clauses,
\* followed by the conjunct ((type = "country" && country_name =
\* tokenCountry) || (type = "building" && settlement = tokenSettlement)) on
\* the category-mapped keys; with at most one of the two, and no
\* exclusions, it yields what buildQuery yields for the same parameters.
C23_AdvancedQuery ==
  \A p \in Built :
    (calls[p].op = "buildAdvancedQuery" /\ calls[p].params.excludeTokenIds = <<>>)
    => LET q == calls[p].params
           c == q.sysCategory
       IN calls[p].ret =
            IF q.tokenCountry # undefined /\ q.tokenSettlement # undefined
            THEN AnchorText(c)
                 \o FilterText(TypeClauses(c, q.tokenTypes))
                 \o FilterText(KeywordClauses(q.tokenKeywords))
                 \o " && (( " \o Equality(AttrKey(c, "type"), "country")
                 \o " && " \o Equality(AttrKey(c, "country_name"), q.tokenCountry)
                 \o ") || (" \o Equality(AttrKey(c, "type"), "building")
                 \o " && " \o Equality(AttrKey(c, "settlement"), q.tokenSettlement)
                 \o "))"
            ELSE buildQuery([q EXCEPT !.tokenIds = <<>>])

\* the pattern is, character by character of the keyword, the bracket
\* alternation of the character's upper-case and lower-case forms
IsPatternOf(pattern, keyword) ==
  /\ Len(pattern) = 4 * Len(keyword)
  /\ \A i \in 1..Len(keyword) :
       SubSeq(pattern, 4 * i - 3, 4 * i) =
         "[" \o UpperChar(SubSeq(keyword, i, i)) \o LowerChar(SubSeq(keyword, i, i)) \o "]"

\* C24: every keyword becomes the concatenation, over its characters c in
\* order, of [upper(c)lower(c)] ("ab" gives [Aa][Bb]), wrapped as
\* name ~ "*pattern*"; one keyword gives one plain clause, several keywords
\* one parenthesized group of their clauses joined by ||.
C24_KeywordFilters ==
  \A p \in Built :
    LET keywords == calls[p].params.tokenKeywords
        pattern == [i \in DOMAIN keywords |-> createKeywordPattern(keywords[i])]
        clause == [i \in DOMAIN keywords |-> "name ~ \"*" \o pattern[i] \o "*\""]
    IN /\ createKeywordPattern("ab") = "[Aa][Bb]"
       /\ \A i \in DOMAIN keywords : IsPatternOf(pattern[i], keywords[i])
       /\ Len(keywords) = 0 => ~Contains(calls[p].ret, "name ~")
       /\ Len(keywords) = 1
          => /\ Contains(calls[p].ret, " && " \o clause[1])
             /\ ~Contains(calls[p].ret, "(name ~")
       /\ Len(keywords) = 2
          => Contains(calls[p].ret, " && (" \o clause[1] \o " || " \o clause[2] \o ")")

\* two keywords, one with an upper-case letter and a digit
C24_Witness ==
  \E p \in Built :
    /\ calls[p].op = "buildQuery"
    /\ calls[p].params.tokenKeywords = <<"ab", "X1">>
    /\ Contains(calls[p].ret, " && (name ~ \"*[Aa][Bb]*\" || name ~ \"*[Xx][11]*\")")

\* ------------------------------------------------------------------------
\* Properties of the related-entity step (SpecAdv)
\* ------------------------------------------------------------------------
\* the advanced searches that are past the related-entity query
Related == {p \in DOMAIN calls : "relatedFailed" \in DOMAIN calls[p]}

\* the value is there: not absent and not empty
Present(value) == value \notin {undefined, null, ""}

Only(values) == LET present(v) == Present(v) IN SelectSeq(values, present)

\* the clause of a scalar filter that is there
PresentText(key, value) ==
  IF Present(value) THEN " && " \o Equality(key, value) ELSE ""

\* the related-entity query the anchor's type, settlement and country name
\* call for
RelatedText(info, c) ==
  IF info.attrType = "building"
  THEN AnchorText(c)
       \o FilterText(TypeClauses(c, <<"city", "country">>))
       \o FilterText(KeywordClauses(Only(<<info.attrSettlement, info.attrCountryName>>)))
  ELSE IF info.attrType = "country"
  THEN AnchorText(c)
       \o FilterText(TypeClauses(c, <<"city", "building">>))
       \o PresentText(AttrKey(c, "country_name"), info.attrCountryName)
  ELSE IF Present(info.attrSettlement) /\ Present(info.attrCountryName)
  THEN AnchorText(c)
       \o " && (( " \o Equality(AttrKey(c, "type"), "country")
       \o " && " \o Equality(AttrKey(c, "country_name"), info.attrCountryName)
       \o ") || (" \o Equality(AttrKey(c, "type"), "building")
       \o " && " \o Equality(AttrKey(c, "settlement"), info.attrSettlement)
       \o "))"
  ELSE AnchorText(c)
       \o FilterText(TypeClauses(c, <<"building", "country">>))
       \o PresentText(AttrKey(c, "country_name"), info.attrCountryName)
       \o PresentText(AttrKey(c, "settlement"), info.attrSettlement)

\* C25: the related-entity query is determined by the anchor's type:
\* building: types {city, country} with the anchor's non-absent
\* settlement and country name as keywords; country: types {city,
\* building} and the anchor's country name; city: types {building,
\* country} and the anchor's settlement and country name (as the
\* country-or-building group when both are there); any other or absent
\* type: no second query, and the related set is empty.  An advanced
\* search sends at most two queries.
C25_RelatedQuery ==
  \A p \in DOMAIN calls :
    /\ Len(queries[p]) <= 2
    /\ p \in Related
       => LET info == calls[p].firstEntityInfo
          IN IF info.attrType \in {"building", "country", "city"}
             THEN /\ Len(queries[p]) = 2
                  /\ queries[p][2] = RelatedText(info, calls[p].sysCategory)
             ELSE /\ Len(queries[p]) = 1
                  /\ calls[p].allEntities = <<>>

\* a building anchor with a settlement and a country name
C25_Witness ==
  \E p \in Related :
    /\ calls[p].firstEntityInfo.attrType = "building"
    /\ Present(calls[p].firstEntityInfo.attrSettlement)
    /\ Present(calls[p].firstEntityInfo.attrCountryName)
    /\ Len(queries[p]) = 2
    /\ Contains(queries[p][2], "name ~")
    /\ "allEntities" \in DOMAIN calls[p]
    /\ calls[p].allEntities # <<>>

\* ------------------------------------------------------------------------
\* Properties of the categorizing step (SpecAdv)
\* ------------------------------------------------------------------------

\* the advanced searches that have processed their related entities
Categorizing == {p \in DOMAIN calls : "entityResults" \in DOMAIN calls[p]}

\* the bucket the payload of a processed entity names: none when the type
\* is absent or is not one of building, city, country
NamedBuckets(result, sysCategory) ==
  LET type == extractTypeFromData(result.data, sysCategory)
  IN IF ~type.throws /\ type.value \in EntityTypes THEN {type.value} ELSE {}

\* the processed related entities whose payload names bucket t
NamedInto(call, t) ==
  {i \in DOMAIN call.entityResults :
     /\ ~call.entityResults[i].isNull
     /\ t \in NamedBuckets(call.entityResults[i], call.sysCategory)}

\* bucket t of a search, empty when the search has built no buckets
Bucket(call, t) ==
  IF "categorizedResults" \in DOMAIN call THEN call.categorizedResults[t]
  ELSE EmptyObject

\* what the claim of bucketing asks of search p
BucketedByPayloadType(p) ==
  LET call == calls[p]
      results == call.entityResults
  IN /\ \A t \in EntityTypes :
          /\ Range(Bucket(call, t).keys) = {results[i].tokenId : i \in NamedInto(call, t)}
          /\ \A k \in Range(Bucket(call, t).keys) :
               \E i \in NamedInto(call, t) :
                 /\ results[i].tokenId = k
                 /\ Bucket(call, t).vals[k] = results[i].data
     /\ p \in Ordered =>
          Range(call.orderedKeys) \subseteq
            (IF AnchorDecoded(call) THEN {call.firstEntityInfo.tokenId} ELSE {})
            \cup UNION {{results[i].tokenId : i \in NamedInto(call, t)} : t \in EntityTypes}

\* C26: every processed related entity sits in the bucket named by the type
\* of its decoded payload and in no other bucket; an entity whose payload
\* names no bucket sits in none and its tokenId is in no result.
C26_BucketByPayloadType ==
  \A p \in Categorizing : BucketedByPayloadType(p)

\* the same, for the searches whose categorizing step came to its end
BucketedWhenBuilt ==
  \A p \in Categorizing : ~calls[p].typeFailed => BucketedByPayloadType(p)

\* ------------------------------------------------------------------------
\* Properties of the configuration checks (SpecInit)
\* ------------------------------------------------------------------------
\* a required field is absent or empty, or chainId does not start with an
\* integer
Rejected(cfg) ==
  \/ \E f \in RequiredFields : cfg[f] \in {undefined, null, ""}
  \/ parseIntIsNaN(cfg.chainId)

\* the operations called on the instance so far
Called == {p \in DOMAIN calls : calls[p].pc # "idle"}

Raises(call) == call.pc = "done" /\ call.raised = "InitializationError"

\* how the call that triggered a failing initialization ends: it raises,
\* or, where isAvailable is set apart, isAvailable answers false
EndsFailed(call, apart) ==
  IF apart /\ call.op = "isAvailable"
  THEN call.pc = "done" /\ call.raised = "" /\ call.ret = FALSE
  ELSE Raises(call)

\* what a rejected configuration leaves behind
RejectedLeaves(apart) ==
  /\ constructions = 0
  /\ client = null
  /\ \A p \in Called :
       /\ isInitialized /\ ~isServiceAvailable
       /\ failures = 1
       /\ calls[p].failuresBefore = 0 => EndsFailed(calls[p], apart)

\* C27 as stated: with a required field missing or a chainId that is no
\* integer, the call that triggers initialization raises
\* InitializationError, no client construction is started, client stays
\* null and the instance is initialized and unavailable.
C27_ValidationFailureRaises ==
  Rejected(config) => RejectedLeaves(FALSE)

\* C27: with a required field missing or a chainId that is no integer, the
\* call that triggers initialization raises InitializationError, or answers
\* false when it is isAvailable; no client construction is started, client
\* stays null and the instance is initialized and unavailable.  A complete
\* configuration starts a client construction with the first call.
C27_ValidationFailure ==
  /\ Rejected(config) => RejectedLeaves(TRUE)
  /\ (~Rejected(config) /\ Called # {}) => constructions > 0

\* a chainId that is no integer made getData raise, and a later call ran
C27_Witness ==
  /\ parseIntIsNaN(config.chainId)
  /\ \E p, q \in Called :
       /\ calls[p].op = "getData" /\ Raises(calls[p]) /\ calls[p].failuresBefore = 0
       /\ calls[q].failuresBefore = 1 /\ calls[q].pc = "done"

\* ------------------------------------------------------------------------
\* Properties of isAvailable (SpecInit)
\* ------------------------------------------------------------------------
\* an isAvailable call that has settled
AvailabilityGiven(call) == call.pc = "done" /\ "op" \in DOMAIN call /\ call.op = "isAvailable"

\* C28: isAvailable never throws; it starts the initialization when none
\* has happened; the answer it settles with is true iff the initialization
\* of the instance succeeded, false iff it failed, and is the answer of
\* every isAvailable call settled before.
C28_IsAvailable ==
  [][\A q \in DOMAIN calls :
       (AvailabilityGiven(calls'[q]) /\ calls'[q] # calls[q]) =>
         /\ calls'[q].raised = ""
         /\ isInitialized'
         /\ calls'[q].ret = (client' # null /\ failures' = 0)
         /\ \A p \in DOMAIN calls : AvailabilityGiven(calls[p]) => calls'[q].ret = calls[p].ret]_vars

\* ------------------------------------------------------------------------
\* Properties of the concurrently awaited fetches (Spec)
\* ------------------------------------------------------------------------
\* the advanced searches that have read the metadata of their initial entities
Informed == {p \in DOMAIN calls : "entityInfoList" \in DOMAIN calls[p]}

\* the EntityInfo the annotations of store entity k give
InfoOf(k, sysCategory) ==
  LET annotations == EntityOf(k).stringAnnotations
  IN [entity |-> k,
      tokenId |-> LastAnnotation(annotations, SYSTEM_ANNOTATION_KEYS.FILE_STEM, null),
      attrType |-> LastAnnotation(annotations,
                     getAttributeKey(sysCategory, ATTRIBUTE_KEYS.TYPE), null),
      attrSettlement |-> LastAnnotation(annotations,
                     getAttributeKey(sysCategory, ATTRIBUTE_KEYS.SETTLEMENT), undefined),
      attrCountryName |-> LastAnnotation(annotations,
                     getAttributeKey(sysCategory, ATTRIBUTE_KEYS.COUNTRY_NAME), undefined)]

\* what each entity of a list processes to, in the order of the list
InInputOrder(entities, sysCategory) ==
  [i \in DOMAIN entities |-> processEntityForMultiple(entities[i], sysCategory)]

\* C29: whatever the order in which the concurrently started fetches
\* settle, the EntityInfo at index i is built from the metadata of initial
\* entity i, and the results of a batch are merged in the order of its
\* input entities.
C29_PositionalResults ==
  \A p \in DOMAIN calls :
    LET call == calls[p]
    IN /\ p \in Informed =>
            /\ Len(call.entityInfoList) = Len(call.initialEntities)
            /\ \A i \in DOMAIN call.initialEntities :
                 call.entityInfoList[i] = InfoOf(call.initialEntities[i], call.sysCategory)
       /\ p \in Categorizing =>
            call.entityResults = InInputOrder(call.allEntities, call.sysCategory)
       /\ (p \in Batches /\ call.op = "getAllData") =>
            call.ret.data =
              CollectResults(EmptyObject,
                             InInputOrder(call.processedEntities, call.sysCategory))

\* two initial entities of different types and tokenIds had their metadata read
C29_Witness ==
  \E p \in Informed :
    /\ Len(calls[p].entityInfoList) = 2
    /\ calls[p].entityInfoList[1].tokenId # calls[p].entityInfoList[2].tokenId
    /\ calls[p].entityInfoList[1].attrType # calls[p].entityInfoList[2].attrType
    /\ calls[p].entityInfoList[1].attrType = "building"

\* ------------------------------------------------------------------------
\* Properties of the pagination slice (SpecAdv)
\* ------------------------------------------------------------------------
\* the elements of items at the 0-based positions from, ..., to - 1
Positions(items, from, to) ==
  [k \in 1..Max(0, Min(to, Len(items)) - from) |-> items[from + k]]

\* the page of search p is the positions [skip, skip + limit) of its
\* ordered keys for the limits in `numeric`, and everything from skip on
\* for the others
PageIsSlice(p, numeric) ==
  LET call == calls[p]
      items == call.orderedKeys
  IN call.processedKeys =
       IF call.limit # NoNumber /\ call.limit[1] \in numeric
       THEN Positions(items, call.skip, call.skip + call.limit[1])
       ELSE Positions(items, call.skip, Len(items))

\* C30 as stated: without a required item, for every skip >= 0 and every
\* numeric limit >= 0 applySkipAndLimit returns the elements at positions
\* [skip, skip + limit) in their order; with limit absent, all from skip on.
C30_SliceForEveryLimit ==
  \A p \in Paged : PageIsSlice(p, 0..MaxLimit)

\* C30: without a required item, for every skip >= 0 and every limit > 0
\* applySkipAndLimit returns the elements at positions [skip, skip + limit)
\* in their order; with limit absent or 0, all from skip on.
C30_SliceSemantics ==
  \A p \in Paged : PageIsSlice(p, 1..MaxLimit)

\* a page cut on both sides: three keys, skip 1, limit 1
C30_Witness ==
  \E p \in Paged :
    /\ Len(calls[p].orderedKeys) = 3
    /\ calls[p].skip = 1
    /\ calls[p].limit = <<1>>
    /\ calls[p].processedKeys = <<calls[p].orderedKeys[2]>>

\* ------------------------------------------------------------------------
\* Properties of the helpers called on their own (SpecPure)
\* ------------------------------------------------------------------------
\* the applySkipAndLimit calls that returned
Sliced ==
  {p \in DOMAIN calls : calls[p].pc = "done" /\ calls[p].fn = "applySkipAndLimit"}

\* the window of a call: positions [skip, skip + limit) for a limit > 0,
\* everything from skip on otherwise
SliceOf(call) ==
  IF call.limit # NoNumber /\ call.limit[1] > 0
  THEN Positions(call.items, call.skip, call.skip + call.limit[1])
  ELSE Positions(call.items, call.skip, Len(call.items))

\* the call was given a required item (a non-empty one)
RequiredGiven(call) == Len(call.requiredItem) > 0 /\ call.requiredItem[1] # ""

\* C31: given a required item outside the sliced window, applySkipAndLimit
\* returns it as the last element, with at most limit elements when
\* limit > 0: the last element of a full slice is evicted, and the item is
\* appended to a slice below capacity or taken without limit.  Given a
\* required item of the window, the slice is returned unchanged.
C31_RequiredItem ==
  \A p \in Sliced :
    LET call == calls[p]
        window == SliceOf(call)
        result == call.ret
        capped == call.limit # NoNumber /\ call.limit[1] > 0
    IN RequiredGiven(call) =>
         IF call.requiredItem[1] \in Range(window)
         THEN result = window
         ELSE /\ Len(result) > 0
              /\ result[Len(result)] = call.requiredItem[1]
              /\ capped => Len(result) <= call.limit[1]
              /\ result = IF capped /\ Len(window) >= call.limit[1]
                          THEN Append(SubSeq(window, 1, Len(window) - 1),
                                      call.requiredItem[1])
                          ELSE Append(window, call.requiredItem[1])

\* [B, C, A] with skip 0, limit 2 and required A gives [B, A]
C31_Witness ==
  \E p \in Sliced :
    /\ calls[p].items = <<"B", "C", "A">>
    /\ calls[p].skip = 0
    /\ calls[p].limit = <<2>>
    /\ calls[p].requiredItem = <<"A">>
    /\ calls[p].ret = <<"B", "A">>

\* ------------------------------------------------------------------------
\* Properties of the filter options (SpecFilters)
\* ------------------------------------------------------------------------
FilterOptions ==
  {"tokenTypes", "tokenCategories", "tokenCountry", "tokenKeywords", "tokenSettlement"}

\* the filter options that differ from `filters` in the option o only,
\* both values being given
ChangedIn(filters, o) ==
  {other \in FilterArgs \ {NoFilters} :
     /\ other[o] # filters[o]
     /\ \A x \in FilterOptions \ {o} : other[x] = filters[x]}

\* the searches with filter options that sent their initial query
Filtered ==
  {p \in DOMAIN calls :
     /\ "filters" \in DOMAIN calls[p]
     /\ calls[p].filters # NoFilters
     /\ Len(queries[p]) > 0}

\* changing one of the given options changes the initial query of search p
ChangesQuery(p, options) ==
  \A o \in options :
    \A other \in ChangedIn(calls[p].filters, o) :
      InitialQuery([calls[p] EXCEPT !.filters = other]) # queries[p][1]

\* C32: the initial query of getAllData, on the standard and on the
\* advanced path, depends on every filter option: changing one of
\* tokenTypes, tokenCategories, tokenCountry, tokenKeywords, tokenSettlement
\* to another non-empty value changes the expression sent to the store.
C32_EveryFilterInQuery ==
  \A p \in Filtered : ChangesQuery(p, FilterOptions)

\* the same for the options other than tokenCategories
OtherFiltersInQuery ==
  \A p \in Filtered : ChangesQuery(p, FilterOptions \ {"tokenCategories"})


\* ------------------------------------------------------------------------
\* Properties of the entities that fail (SpecEntities)
\* ------------------------------------------------------------------------
\* the reads that process the entities of an answer in this step
Finishing ==
  {q \in DOMAIN calls :
     /\ calls[q].pc = "body"
     /\ calls'[q].pc = "done"
     /\ "entities" \in DOMAIN calls'[q]}

\* the entities a finished read processed one by one
ListOf(call) ==
  IF call.op = "getAllData" THEN call.processedEntities ELSE call.entities

\* the entity ends without a value in operation op: its metadata fetch
\* throws, its owner is missing or another one, it lacks the
\* _sys_file_stem (batches only) or the _sys_data annotation, or its
\* payload does not decode
EndsWithoutValue(e, op) ==
  LET keys == {e.stringAnnotations[i].key : i \in DOMAIN e.stringAnnotations}
  IN \/ e.metaFails
     \/ ~OwnedBy(e)
     \/ op # "getData" /\ SYSTEM_ANNOTATION_KEYS.FILE_STEM \notin keys
     \/ SYSTEM_ANNOTATION_KEYS.DATA \notin keys
     \/ decodeAndDecompressData(
          LastAnnotation(e.stringAnnotations, SYSTEM_ANNOTATION_KEYS.DATA, EmptyString),
          LastAnnotation(e.stringAnnotations, SYSTEM_ANNOTATION_KEYS.COMPRESSION_METHOD,
                         null)).throws

\* what the processing of entity k resolves to in a read
ResultOf(k, call) ==
  IF call.op = "getData" THEN processEntity(k, call.tokenId, call.sysCategory)
  ELSE processEntityForMultiple(k, call.sysCategory)

\* the entities of a finished read that end with a value
Valued(call) ==
  {i \in DOMAIN ListOf(call) : ~EndsWithoutValue(EntityOf(ListOf(call)[i]), call.op)}

\* the cache key and the value an entity that ends with a value is stored with
ValuePair(k, call) ==
  <<getCacheKey(call.sysCategory,
      IF call.op = "getData" THEN call.tokenId
      ELSE LastAnnotation(EntityOf(k).stringAnnotations,
                          SYSTEM_ANNOTATION_KEYS.FILE_STEM, undefined)),
    PayloadOf(EntityOf(k))>>

\* C33: an entity whose processing ends without a value (metadata fetch
\* throws, owner missing or different, no _sys_file_stem or no _sys_data
\* annotation, payload that does not decode) resolves to null; the step
\* removes no cache entry, every entry it adds or changes holds the value of
\* an entity that ended with a value, and so does every value it returns
\* that was not cached before.
C33_FailedEntityLeavesNoTrace ==
  [][\A q \in Finishing :
       LET call == calls'[q]
           list == ListOf(call)
           valued == {ValuePair(list[i], call) : i \in Valued(call)}
       IN /\ \A i \in DOMAIN list :
               EndsWithoutValue(EntityOf(list[i]), call.op)
                 => ResultOf(list[i], call).isNull
          /\ DOMAIN cache \subseteq DOMAIN cache'
          /\ \A k \in DOMAIN cache' :
               (k \notin DOMAIN cache \/ cache'[k] # cache[k])
                 => <<k, cache'[k]>> \in valued
          /\ \A v \in ReturnedValues(call) :
               \/ v \in {pair[2] : pair \in valued}
               \/ call.op = "getMultipleData" /\ v \in Range(cache)]_vars

\* a read has finished whose answer held nothing but entities that end
\* without a value, one of them of a token cached before: the entry is as
\* it was and the read returned no value of theirs
C33_Witness ==
  \E p \in DOMAIN calls :
    /\ calls[p].pc = "done"
    /\ calls[p].op = "getAllData"
    /\ "entities" \in DOMAIN calls[p]
    /\ Len(ListOf(calls[p])) > 1
    /\ Valued(calls[p]) = {}
    /\ NoData.entityKey \in Range(ListOf(calls[p]))
    /\ ValuePair(NoData.entityKey, calls[p])[1] \in DOMAIN cache
    /\ cache[ValuePair(NoData.entityKey, calls[p])[1]] = PayloadOf(Country613)
    /\ ReturnedValues(calls[p]) = {}


\* ------------------------------------------------------------------------
\* Properties of the type extraction (SpecPure)
\* ------------------------------------------------------------------------
\* the finished calls of extractTypeFromData
TypeCalls ==
  {p \in DOMAIN calls :
     /\ calls[p].pc = "done"
     /\ "fn" \in DOMAIN calls[p]
     /\ calls[p].fn = "extractTypeFromData"}

\* the type a decoded value carries for a category: the direct `type`
\* member, or the value of the first `attributes` entry named "type"
TypeField(data, sysCategory) ==
  IF data.kind # "object" THEN undefined
  ELSE IF sysCategory = SystemCategory.REALITY_NFT_SPECIAL_VENUES THEN data.type
  ELSE IF data.attributes.kind # "array" THEN undefined
  ELSE LET items == data.attributes.items
           named == {i \in DOMAIN items : items[i].trait_type = "type"}
       IN IF named = {} THEN undefined
          ELSE items[CHOOSE i \in named : \A j \in named : i <= j].value

\* the call of extractTypeFromData returned the type field of its argument
ReturnsTypeField(p) ==
  /\ ~calls[p].ret.throws
  /\ calls[p].ret.value = TypeField(calls[p].data, calls[p].sysCategory)

\* C34: extractTypeFromData never raises on a decoded JSON value: it
\* returns the direct `type` member for the special-venues category and
\* the value of the first `attributes` entry with trait_type "type" for
\* every other category, and undefined for every value without that field
\* (null, scalars, objects without `attributes`, objects whose
\* `attributes` is not a list).
C34_TypeExtractionTotal ==
  \A p \in TypeCalls : ReturnsTypeField(p)

\* the same for the values that are not null and whose `attributes`, in
\* the other categories, is a list, null or absent
TypeExtractionOnLists ==
  \A p \in TypeCalls :
    (/\ calls[p].data.kind # "null"
     /\ \/ calls[p].sysCategory = SystemCategory.REALITY_NFT_SPECIAL_VENUES
        \/ calls[p].data.kind # "object"
        \/ calls[p].data.attributes.kind \in {"array", "null", "absent"})
      => ReturnsTypeField(p)


\* ------------------------------------------------------------------------
\* Properties of concurrent initialization (SpecInit)
\* ------------------------------------------------------------------------
\* C36: single-flight initialization: in every interleaving of the
\* operations of one instance, also when two of them begin before the first
\* initialization has completed, at most one createClient call is started.
C36_SingleFlight ==
  constructions <= 1


\* ------------------------------------------------------------------------
\* Properties of results and cache entries written together (Spec)
\* ------------------------------------------------------------------------
\* caller p calls getData again, with the arguments of its getData that
\* just returned the non-null value of a store answer
AsksAgain(p) ==
  /\ Calls(p, "getData")
  /\ calls[p].pc = "done"
  /\ calls[p].op = "getData"
  /\ "entities" \in DOMAIN calls[p]
  /\ calls[p].ret # JsonNull
  /\ calls'[p].tokenId = calls[p].tokenId
  /\ calls'[p].sysCategory = calls[p].sysCategory

\* C37: read-your-result: when getData(t, c) returned a non-null value
\* after a cache miss, the getData(t, c) that follows it at once returns
\* the same value, however many entities the store matched and in whatever
\* order their processing completed.
C37_ReadYourResult ==
  [][\A p \in DOMAIN calls :
       AsksAgain(p) => (calls'[p].pc = "done" /\ calls'[p].ret = calls[p].ret)]_vars

\* the same when the entities of the answer that end with a value all
\* carry one payload
ReadYourOnlyResult ==
  [][\A p \in DOMAIN calls :
       (/\ AsksAgain(p)
        /\ \A i, j \in Valued(calls[p]) :
             PayloadOf(EntityOf(calls[p].entities[i]))
               = PayloadOf(EntityOf(calls[p].entities[j])))
         => (calls'[p].pc = "done" /\ calls'[p].ret = calls[p].ret)]_vars


\* the batch operations that return in this step
ReturningBatches ==
  {q \in DOMAIN calls :
     /\ calls'[q] # calls[q]
     /\ calls'[q].pc = "done"
     /\ calls'[q].op \in {"getMultipleData", "getAllData"}
     /\ calls'[q].raised = ""}

\* every key of the returned map has a cache entry holding the returned value
AgreesWithCache(call, c) ==
  \A k \in Range(DataOf(call).keys) :
    /\ getCacheKey(call.sysCategory, k) \in DOMAIN c
    /\ c[getCacheKey(call.sysCategory, k)] = DataOf(call).vals[k]

\* C38: result/cache agreement: when getMultipleData or getAllData returns,
\* the cache holds, for every key k of the returned map, an entry for
\* (sysCategory, k) that equals the returned value of k, also when the
\* answer holds several entities of one tokenId whose processing completes
\* in any order.
C38_BatchAgreesWithCache ==
  [][\A q \in ReturningBatches : AgreesWithCache(calls'[q], cache')]_vars

\* no two entities of the store carry one tokenId
DistinctStems ==
  \A e1, e2 \in store :
    LastAnnotation(e1.stringAnnotations, SYSTEM_ANNOTATION_KEYS.FILE_STEM, undefined)
      = LastAnnotation(e2.stringAnnotations, SYSTEM_ANNOTATION_KEYS.FILE_STEM, undefined)
    => e1 = e2

\* the same over the stores without two entities of one tokenId
BatchAgreesWithoutDuplicates ==
  [][\A q \in ReturningBatches :
       DistinctStems => AgreesWithCache(calls'[q], cache')]_vars


\* ------------------------------------------------------------------------
\* Properties of the cache keys (SpecEntities)
\* ------------------------------------------------------------------------
\* the (category, tokenId) pairs of a set of categories
KeyPairs(categories) == categories \X TokenIds

\* no cache entry is the entry of two different pairs of the given categories
Unshared(categories) ==
  \A a, b \in KeyPairs(categories) :
    (/\ getCacheKey(a[1], a[2]) = getCacheKey(b[1], b[2])
     /\ getCacheKey(a[1], a[2]) \in DOMAIN cache)
      => a = b

\* C39: the cache keys are injective: no cache entry is the entry of two
\* different (category, tokenId) pairs, so that a read of one pair is never
\* answered with the value cached for another, whatever strings the
\* categories and token ids are.
C39_InjectiveKeys ==
  Unshared(Categories)

\* the same for the categories of the enum, which hold no ':'
InjectiveEnumKeys ==
  Unshared(Range(SystemCategory))


\* ------------------------------------------------------------------------
\* Properties of the keys of a batch (SpecEntities)
\* ------------------------------------------------------------------------
\* the values of the _sys_file_stem annotations of an entity
StemsOf(e) ==
  {e.stringAnnotations[i].value :
     i \in {j \in DOMAIN e.stringAnnotations :
              e.stringAnnotations[j].key = SYSTEM_ANNOTATION_KEYS.FILE_STEM}}

\* the finished getMultipleData calls whose query the store answered with
\* entities that match it: each carries a requested tokenId as _sys_file_stem
Matched ==
  {p \in DOMAIN calls :
     /\ calls[p].pc = "done"
     /\ calls[p].op = "getMultipleData"
     /\ "entities" \in DOMAIN calls[p]
     /\ \A i \in DOMAIN calls[p].entities :
          StemsOf(EntityOf(calls[p].entities[i])) \cap Range(calls[p].tokenIds) # {}}

\* C40: every key of the map getMultipleData(tokenIds, c) returns is one of
\* the requested tokenIds, also when an entity of the store carries more
\* than one _sys_file_stem annotation.
C40_KeysAreRequested ==
  \A p \in Matched :
    Range(calls[p].ret.keys) \subseteq Range(calls[p].tokenIds)

\* the same for the answers whose entities carry one _sys_file_stem each
KeysOfSingleStems ==
  \A p \in Matched :
    (\A i \in DOMAIN calls[p].entities :
       Cardinality(StemsOf(EntityOf(calls[p].entities[i]))) = 1)
      => Range(calls[p].ret.keys) \subseteq Range(calls[p].tokenIds)


\* ------------------------------------------------------------------------
\* Properties of termination (SpecLive)
\* ------------------------------------------------------------------------
\* the operation of p has been called and has neither returned nor raised
InProgress(p) == calls[p].pc \notin {"idle", "done"}

\* a batch that has returned holds the outcome of every per-entity
\* operation it started: a key for every entity of the answer that ends
\* with a value, and one awaited result for every related entity
AllSettled ==
  \A p \in DOMAIN calls :
    (calls[p].pc = "done" /\ calls[p].raised = "") =>
      /\ p \in Batches =>
           \A i \in Valued(calls[p]) :
             ValuePair(ListOf(calls[p])[i], calls[p])[1] \in DOMAIN cache
               /\ TokenIdOf(ListOf(calls[p])[i]) \in Range(DataOf(calls[p]).keys)
      /\ "entityResults" \in DOMAIN calls[p] =>
           Len(calls[p].entityResults) = Len(calls[p].allEntities)

ContinueEnabled ==
  \A p \in DOMAIN calls : Awaiting(p) <=> ENABLED <<Continue(p)>>_vars

====
